---- MODULE Spec2Model ----
(***************************************************************************)
(* Cart and order handling of the storefront backend.                      *)
(*                                                                         *)
(* The database is the state: the product collection, the cart embedded in *)
(* every account, the order collection, and the payment provider's         *)
(* checkout sessions.  A request arrives (a Receive action) and is held in *)
(* req; one handler action runs the whole controller function on it and    *)
(* writes the HTTP response to resp; Reply ends the request.  Handlers run *)
(* one at a time in the specifications SpecCart and SpecOrder; SpecRace    *)
(* runs two placeOrder handlers whose awaited database calls interleave,   *)
(* and SpecReview does the same for two addProductReview handlers.         *)
(* SpecAccount, SpecSession and SpecReset cover the account controller     *)
(* (registration, login, tokens, password reset) with a clock in env, and  *)
(* SpecShop the initialization effect of the storefront's shop context.    *)
(*                                                                         *)
(* Products are looked up by name in orderController and by _id in         *)
(* cartController; the model gives every product one immutable identifier  *)
(* used for both.  All identifiers are well-formed ObjectIds: "u0" and     *)
(* "p0" are well-formed identifiers of no stored document.  A product is   *)
(* stored while its identifier is in DOMAIN products.                      *)
(***************************************************************************)
EXTENDS Integers, Sequences, FiniteSets, TLC

\* ---------------------------------------------------------------- bounds
MaxStock == 2      \* an admin sets a stock of 0..MaxStock
MaxQty == 2        \* a request names a quantity of 0..MaxQty
MaxPrice == 2      \* catalog and claimed prices are 1..MaxPrice
MaxOrders == 2     \* order documents ever created
MaxTime == 2       \* seconds the clock ticks through one at a time

\* ------------------------------------------------------------- constants
DELIVERY_CHARGES == 50

UserIds == {"u1", "u2"}
NoUser == "u0"
ProductIds == {"p1", "p2"}
NoProduct == "p0"
Sizes == {"S", "M"}
NoSize == "none"                    \* item.size undefined
SizeSets == {{"S"}, {"S", "M"}}     \* size arrays an admin submits

VARIABLES products, carts, orders, sessions, nextOrder, req, resp, workers, accounts, env, browser

vars == <<products, carts, orders, sessions, nextOrder, req, resp, workers, accounts, env, browser>>

NoReq == [op |-> "none"]
NoResp == [op |-> "none"]

\* the request req is waiting for its handler
Handling(op) == req.op = op /\ resp = NoResp

\* the response has been sent: the request is over
Reply ==
    /\ req # NoReq
    /\ resp # NoResp
    /\ req' = NoReq
    /\ UNCHANGED <<products, carts, orders, sessions, nextOrder, resp, workers, accounts, env, browser>>

Min(a, b) == IF a < b THEN a ELSE b

\* ------------------------------------------------------------ cart store
EmptyCart == <<>>

\* cartData[id] is truthy
HasProduct(cart, id) == id \in DOMAIN cart

\* cartData[id][size] is truthy: present and not 0
HasItem(cart, id, size) ==
    /\ id \in DOMAIN cart
    /\ size \in DOMAIN cart[id]
    /\ cart[id][size] # 0

\* the stored quantity of an entry, an absent entry counting as 0
Stored(cart, id, size) ==
    IF id \in DOMAIN cart /\ size \in DOMAIN cart[id] THEN cart[id][size] ELSE 0

\* cartData[id][size] = q   (cartData[id] exists)
SetSize(sizes, size, q) == [s \in DOMAIN sizes \cup {size} |-> IF s = size THEN q ELSE sizes[s]]

\* cartData[id][size] = q, or cartData[id] = { [size]: q } when the product is absent
SetItem(cart, id, size, q) ==
    [p \in DOMAIN cart \cup {id} |->
        IF p = id
        THEN (IF id \in DOMAIN cart THEN SetSize(cart[id], size, q) ELSE (size :> q))
        ELSE cart[p]]

\* delete cartData[id][size]; delete cartData[id] when no size is left
DeleteItem(cart, id, size) ==
    LET rest == [s \in DOMAIN cart[id] \ {size} |-> cart[id][s]]
    IN  IF DOMAIN rest = {}
        THEN [p \in DOMAIN cart \ {id} |-> cart[p]]
        ELSE [cart EXCEPT ![id] = rest]

\* the status the catch blocks of the cart and order controllers answer with
ErrorStatus(msg) ==
    IF msg \in {"Invalid userId", "User not found", "Invalid productId", "Product not found",
                "Item not found in cart", "Invalid price", "Invalid size", "Invalid total amount",
                "Order not found", "Invalid orderId or userId", "Invalid sort parameter",
                "Invalid status"}
    THEN 400 ELSE 500

Fail(op, msg) == [op |-> op, ok |-> FALSE, status |-> ErrorStatus(msg), msg |-> msg]
Ok(op, msg) == [op |-> op, ok |-> TRUE, status |-> 200, msg |-> msg]

\* validateProductAndSize: "" when the product exists and offers the size
validateProductAndSize(id, size) ==
    IF id \notin DOMAIN products THEN "Product not found"
    ELSE IF size \notin products[id].sizes THEN "Size not available"
    ELSE ""

\* a mutant of addedCart: the existing quantity is overwritten, not added to
addedCart_overwrites(cart, id, size, quantity) == SetItem(cart, id, size, quantity)

\* the cart addToCart builds from the account's cart (lines 138-151)
addedCart(cart, id, size, quantity) ==
    IF HasItem(cart, id, size)
    THEN SetItem(cart, id, size, cart[id][size] + quantity)
    ELSE SetItem(cart, id, size, quantity)

\* the error addToCart throws on a request, "" when it throws none
addToCartError(cart, r) ==
    IF r.quantity < 1 THEN "id, size, and quantity are required and must be valid"
    ELSE IF validateProductAndSize(r.id, r.size) # "" THEN validateProductAndSize(r.id, r.size)
    ELSE IF products[r.id].stock < r.quantity THEN "Insufficient stock"
    ELSE IF HasItem(cart, r.id, r.size) /\ products[r.id].stock < cart[r.id][r.size] + r.quantity
         THEN "Insufficient stock"
    ELSE ""

\* a mutant of addToCart: the new quantity is saved before the second stock check
addToCart_savesBeforeCheck ==
    /\ Handling("addToCart")
    /\ LET err == addToCartError(carts[req.userId], req)
       IN  IF err # ""
           THEN /\ resp' = Fail("addToCart", err)
                /\ carts' = IF HasItem(carts[req.userId], req.id, req.size)
                                /\ validateProductAndSize(req.id, req.size) = ""
                             THEN [carts EXCEPT ![req.userId] = addedCart(@, req.id, req.size, req.quantity)]
                             ELSE carts
           ELSE /\ carts' = [carts EXCEPT ![req.userId] = addedCart(@, req.id, req.size, req.quantity)]
                /\ resp' = Ok("addToCart", "Added to cart")
    /\ UNCHANGED <<req, products, orders, sessions, nextOrder, workers, accounts, env, browser>>

addToCart ==
    /\ Handling("addToCart")
    /\ LET err == addToCartError(carts[req.userId], req)
       IN  IF err # ""
           THEN /\ resp' = Fail("addToCart", err)
                /\ carts' = carts
           ELSE /\ carts' = [carts EXCEPT ![req.userId] = addedCart(@, req.id, req.size, req.quantity)]
                /\ resp' = Ok("addToCart", "Added to cart")
    /\ UNCHANGED <<req, products, orders, sessions, nextOrder, workers, accounts, env, browser>>

\* the error updateCart throws on a request, "" when it throws none
updateCartError(cart, r) ==
    IF r.quantity < 0 THEN "id, size, and quantity are required and must be valid"
    ELSE IF validateProductAndSize(r.id, r.size) # "" THEN validateProductAndSize(r.id, r.size)
    ELSE IF ~HasItem(cart, r.id, r.size) THEN "Item not found in cart"
    ELSE IF r.quantity # 0 /\ products[r.id].stock < r.quantity THEN "Insufficient stock"
    ELSE ""

\* the cart updateCart builds (lines 190-201)
updatedCart(cart, id, size, quantity) ==
    IF quantity = 0 THEN DeleteItem(cart, id, size) ELSE SetItem(cart, id, size, quantity)

updateCart ==
    /\ Handling("updateCart")
    /\ LET err == updateCartError(carts[req.userId], req)
       IN  IF err # ""
           THEN /\ resp' = Fail("updateCart", err)
                /\ carts' = carts
           ELSE /\ carts' = [carts EXCEPT ![req.userId] = updatedCart(@, req.id, req.size, req.quantity)]
                /\ resp' = Ok("updateCart", "Cart updated")
    /\ UNCHANGED <<req, products, orders, sessions, nextOrder, workers, accounts, env, browser>>

\* the error removeFromCart throws on a request, "" when it throws none
removeFromCartError(cart, r) ==
    IF validateProductAndSize(r.id, r.size) # "" THEN validateProductAndSize(r.id, r.size)
    ELSE IF ~HasItem(cart, r.id, r.size) THEN "Item not found in cart"
    ELSE ""

removeFromCart ==
    /\ Handling("removeFromCart")
    /\ LET err == removeFromCartError(carts[req.userId], req)
       IN  IF err # ""
           THEN /\ resp' = Fail("removeFromCart", err)
                /\ carts' = carts
           ELSE /\ carts' = [carts EXCEPT ![req.userId] = DeleteItem(@, req.id, req.size)]
                /\ resp' = Ok("removeFromCart", "Item removed from cart")
    /\ UNCHANGED <<req, products, orders, sessions, nextOrder, workers, accounts, env, browser>>

\* ------------------------------------------------------------- mergeCart
\* The client cart is the JSON object of the request body: a list of
\* <<productId, sizes>> in key order, sizes a list of <<size, quantity>>.

\* a mutant of mergedQuantity: the sum with the existing quantity is not clamped
mergedQuantity_unclamped(cart, id, size, quantity, stock) ==
    IF HasItem(cart, id, size) THEN cart[id][size] + quantity ELSE Min(quantity, stock)

\* a mutant of mergedQuantity: the existing quantity is replaced, not added to
mergedQuantity_replaces(cart, id, size, quantity, stock) == Min(quantity, stock)

\* the quantity mergeCart stores for one accepted entry (lines 345-354)
mergedQuantity(cart, id, size, quantity, stock) ==
    IF HasProduct(cart, id)
    THEN IF HasItem(cart, id, size)
         THEN Min(cart[id][size] + quantity, stock)
         ELSE Min(quantity, stock)
    ELSE Min(quantity, stock)

\* the inner loop over the sizes of one client-cart product (lines 335-355)
RECURSIVE mergeSizes(_, _, _, _)
mergeSizes(acc, id, sizes, i) ==
    IF i > Len(sizes) THEN acc
    ELSE LET size == sizes[i][1]
             quantity == sizes[i][2]
             product == products[id]
         IN  IF size \notin product.sizes
             THEN mergeSizes([acc EXCEPT !.ignored = Append(@, [productId |-> id, size |-> size, reason |-> "Invalid size"])],
                             id, sizes, i + 1)
             ELSE IF product.stock < quantity
             THEN mergeSizes([acc EXCEPT !.ignored = Append(@, [productId |-> id, size |-> size, reason |-> "Insufficient stock"])],
                             id, sizes, i + 1)
             ELSE mergeSizes([acc EXCEPT !.cart = SetItem(@, id, size,
                                                  mergedQuantity(acc.cart, id, size, quantity, product.stock))],
                             id, sizes, i + 1)

\* a mutant of mergeProducts: the loop ends at the first product not found
RECURSIVE mergeProducts_abortsOnFailure(_, _, _)
mergeProducts_abortsOnFailure(acc, cookieCart, i) ==
    IF i > Len(cookieCart) THEN acc
    ELSE LET id == cookieCart[i][1]
         IN  IF id \notin DOMAIN products
             THEN [acc EXCEPT !.ignored = Append(@, [productId |-> id, size |-> "", reason |-> "Product not found"])]
             ELSE mergeProducts_abortsOnFailure(mergeSizes(acc, id, cookieCart[i][2], 1), cookieCart, i + 1)

\* the outer loop over the products of the client cart (lines 324-356)
RECURSIVE mergeProducts(_, _, _)
mergeProducts(acc, cookieCart, i) ==
    IF i > Len(cookieCart) THEN acc
    ELSE LET id == cookieCart[i][1]
         IN  IF id \notin DOMAIN products
             THEN mergeProducts([acc EXCEPT !.ignored = Append(@, [productId |-> id, size |-> "", reason |-> "Product not found"])],
                                cookieCart, i + 1)
             ELSE mergeProducts(mergeSizes(acc, id, cookieCart[i][2], 1), cookieCart, i + 1)

mergeCart ==
    /\ Handling("mergeCart")
    /\ LET out == mergeProducts([cart |-> carts[req.userId], ignored |-> <<>>], req.cartData, 1)
       IN  /\ carts' = [carts EXCEPT ![req.userId] = out.cart]
           /\ resp' = [op |-> "mergeCart", ok |-> TRUE, status |-> 200,
                       msg |-> "Cart merged successfully", ignoredItems |-> out.ignored]
    /\ UNCHANGED <<req, products, orders, sessions, nextOrder, workers, accounts, env, browser>>

\* ---------------------------------------------------------- admin edits
\* validateProductInputs: "" when the submitted price and stock are accepted
validateProductInputs(r) ==
    IF r.price <= 0 THEN "Invalid price"
    ELSE IF r.stock < 0 THEN "Invalid stock value"
    ELSE ""

updateProduct ==
    /\ Handling("updateProduct")
    /\ IF req.id \notin DOMAIN products
       THEN /\ resp' = Fail("updateProduct", "Product not found")
            /\ products' = products
       ELSE IF validateProductInputs(req) # ""
       THEN /\ resp' = [Fail("updateProduct", validateProductInputs(req)) EXCEPT !.status = 400]
            /\ products' = products
       ELSE /\ products' = [products EXCEPT ![req.id] =
                               [price |-> req.price, stock |-> req.stock, sizes |-> req.sizes]]
            /\ resp' = Ok("updateProduct", "Product updated successfully")
    /\ UNCHANGED <<req, carts, orders, sessions, nextOrder, workers, accounts, env, browser>>

\* removeProduct: the product document is deleted; orders and carts are not touched
removeProduct ==
    /\ Handling("removeProduct")
    /\ IF req.id \notin DOMAIN products
       THEN /\ resp' = Fail("removeProduct", "Product not found")
            /\ products' = products
       ELSE /\ products' = [id \in DOMAIN products \ {req.id} |-> products[id]]
            /\ resp' = Ok("removeProduct", "Product removed successfully")
    /\ UNCHANGED <<req, carts, orders, sessions, nextOrder, workers, accounts, env, browser>>

\* -------------------------------------------------------------- accounts
\* The user collection as registration sees it: accounts[email] is the
\* document with that email.  One verified admin exists from the start.
Emails == {"a@shop", "b@shop"}
RootAdmin == "root@shop"
BadEmail == "not-an-email"
NoCaller == "anonymous"             \* req.authUser undefined
Passwords == {"Str0ng!Passw0rd", "weak"}

\* bcrypt.hash and bcrypt.compare
Hash(password) == <<"bcrypt", password>>

\* null
NoToken == [key |-> "null"]

InitAccounts ==
    (RootAdmin :> [role |-> "admin", isVerified |-> TRUE,
                   password |-> Hash("Str0ng!Passw0rd"), resetPasswordToken |-> NoToken])

\* The clock in seconds (Date.now() / 1000) and the Mongoose option
\* strictQuery, which the installed Mongoose version fixes: when TRUE a filter
\* on a path the schema does not declare is dropped from the query.
InitEnv == [now |-> 0, strictQuery |-> TRUE]

\* the storefront: the first access token it holds is the one read from the
\* cookie when the page loads, the anti-forgery token is fetched afterwards
NoBearer == "null"
Bearer == "accessToken"
NoCsrf == "null"
Csrf == "csrfToken"

\* no storefront page is open
NoBrowser ==
    [token |-> NoBearer, cookie |-> NoBearer, csrfToken |-> NoCsrf, prevTokenRef |-> NoBearer,
     cartStore |-> EmptyCart, posted |-> 0, runs |-> <<>>]

\* validateRegisterInputs: the error thrown, "" when the body is accepted
validateRegisterInputs(r) ==
    IF r.password # r.confirmPassword THEN "Passwords do not match"
    ELSE IF r.email = BadEmail THEN "Invalid email format"
    ELSE IF r.password = "weak" THEN "Password is too weak"
    ELSE ""

\* the status the catch blocks of registerUser and createAdmin answer with
RegisterStatus(msg) ==
    IF msg \in {"Invalid email format", "User with this email already exists", "Password is too weak"}
    THEN 400 ELSE 500

\* newUser.save()
saveAccount(accs, email, role, password) ==
    (email :> [role |-> role, isVerified |-> FALSE,
               password |-> Hash(password), resetPasswordToken |-> NoToken]) @@ accs

\* a mutant of deleteAccount: the document stays
deleteAccount_keeps(accs, email) == accs

\* userModel.findByIdAndDelete(user._id)
deleteAccount(accs, email) == [e \in DOMAIN accs \ {email} |-> accs[e]]

\* the common part of registerUser and createAdmin: validation, the duplicate
\* check, the save, and one attempt to send the verification email, which
\* succeeds or throws; sends is the number of attempts made
createAccount(op, role) ==
    LET err == IF validateRegisterInputs(req) # "" THEN validateRegisterInputs(req)
               ELSE IF req.email \in DOMAIN accounts THEN "User with this email already exists"
               ELSE ""
    IN  IF err # ""
        THEN /\ accounts' = accounts
             /\ resp' = [op |-> op, ok |-> FALSE, status |-> RegisterStatus(err), msg |-> err, sends |-> 0]
        ELSE \/ /\ accounts' = saveAccount(accounts, req.email, role, req.password)
                /\ resp' = [op |-> op, ok |-> TRUE, status |-> 201, msg |-> "registered", sends |-> 1]
             \/ /\ accounts' = deleteAccount(saveAccount(accounts, req.email, role, req.password), req.email)
                /\ resp' = [op |-> op, ok |-> FALSE, status |-> 500,
                            msg |-> "Failed to send verification email", sends |-> 1]

registerUser ==
    /\ Handling("registerUser")
    /\ createAccount("registerUser", "user")
    /\ UNCHANGED <<req, products, carts, orders, sessions, nextOrder, workers, env, browser>>

createAdmin ==
    /\ Handling("createAdmin")
    /\ IF req.caller = NoCaller
       THEN /\ accounts' = accounts
            /\ resp' = [op |-> "createAdmin", ok |-> FALSE, status |-> 500, msg |-> "Unauthorized", sends |-> 0]
       ELSE IF req.caller \notin DOMAIN accounts \/ accounts[req.caller].role # "admin"
       THEN /\ accounts' = accounts
            /\ resp' = [op |-> "createAdmin", ok |-> FALSE, status |-> 500,
                        msg |-> "Unauthorized: Admin access required", sends |-> 0]
       ELSE createAccount("createAdmin", "admin")
    /\ UNCHANGED <<req, products, carts, orders, sessions, nextOrder, workers, env, browser>>

\* the userId of a body that has none
NoUserId == ""

\* a mutant of deleteUserError: the role of the account to delete is not looked at
deleteUserError_adminsDeletable(r) ==
    IF r.caller = NoCaller THEN "Unauthorized"
    ELSE IF r.caller \notin DOMAIN accounts \/ accounts[r.caller].role # "admin"
    THEN "Unauthorized: Admin access required"
    ELSE IF r.userId = NoUserId THEN "User ID is required and must be valid"
    ELSE IF r.userId \notin DOMAIN accounts THEN "User not found"
    ELSE IF r.userId = r.caller THEN "Cannot delete your own account"
    ELSE ""

\* the error deleteUser throws, "" when it deletes the account
deleteUserError(r) ==
    IF r.caller = NoCaller THEN "Unauthorized"
    ELSE IF r.caller \notin DOMAIN accounts \/ accounts[r.caller].role # "admin"
    THEN "Unauthorized: Admin access required"
    ELSE IF r.userId = NoUserId THEN "User ID is required and must be valid"
    ELSE IF r.userId \notin DOMAIN accounts THEN "User not found"
    ELSE IF r.userId = r.caller THEN "Cannot delete your own account"
    ELSE IF accounts[r.userId].role = "admin" THEN "Cannot delete another admin account"
    ELSE ""

\* DELETE /delete-user
deleteUser ==
    /\ Handling("deleteUser")
    /\ LET err == deleteUserError(req)
       IN  IF err # ""
           THEN /\ accounts' = accounts
                /\ resp' = [op |-> "deleteUser", ok |-> FALSE, msg |-> err,
                            status |-> IF err \in {"User not found", "Cannot delete your own account",
                                                   "Cannot delete another admin account"}
                                       THEN 400 ELSE 500]
           ELSE /\ accounts' = deleteAccount(accounts, req.userId)
                /\ resp' = [op |-> "deleteUser", ok |-> TRUE, status |-> 200, msg |-> "User deleted successfully"]
    /\ UNCHANGED <<req, products, carts, orders, sessions, nextOrder, workers, env, browser>>

\* The account slice: registrations, admin creations and deletions for two
\* free emails, the admin's email and a malformed one, by any caller.
AccountRequests ==
    [op : {"registerUser"}, email : Emails \cup {RootAdmin, BadEmail},
     password : Passwords, confirmPassword : Passwords]
    \cup [op : {"createAdmin"}, caller : Emails \cup {RootAdmin, NoCaller},
          email : Emails \cup {RootAdmin, BadEmail}, password : Passwords, confirmPassword : Passwords]
    \cup [op : {"deleteUser"}, caller : Emails \cup {RootAdmin, NoCaller},
          userId : Emails \cup {RootAdmin, NoUserId}]

ReceiveAccount ==
    /\ req = NoReq
    /\ req' \in AccountRequests
    /\ resp' = NoResp
    /\ UNCHANGED <<products, carts, orders, sessions, nextOrder, workers, accounts, env, browser>>

NextAccount == ReceiveAccount \/ Reply \/ registerUser \/ createAdmin \/ deleteUser

\* ----------------------------------------------------------------- tokens
\* jwt.sign(payload, key, { expiresIn }): the token is a function of the
\* payload, the key and the second of signing; iat and exp are in seconds.
AccessLifetime == 43200          \* '12h'
RefreshLifetime == 604800        \* '7d'
VerificationLifetime == 86400    \* '24h'
ResetLifetime == 3600            \* '1h'

sign(key, claim, sub, iat, lifetime) ==
    [key |-> key, claim |-> claim, sub |-> sub, iat |-> iat, exp |-> iat + lifetime]

createAccessToken(id) == sign("JWT_SECRET_KEY", "id", id, env.now, AccessLifetime)
createRefreshToken(id) == sign("JWT_REFRESH_SECRET_KEY", "id", id, env.now, RefreshLifetime)
createResetToken(email) == sign("JWT_SECRET_KEY", "email", email, env.now, ResetLifetime)

\* jwt.verify(token, key): "ok", or the name of the error thrown
verify(token, key) ==
    IF token.key # key THEN "JsonWebTokenError"
    ELSE IF env.now >= token.exp THEN "TokenExpiredError"
    ELSE "ok"

\* decoded.id and decoded.email: undefined when the payload has no such claim
Undefined == "undefined"
decodedId(token) == IF token.claim = "id" THEN token.sub ELSE Undefined
decodedEmail(token) == IF token.claim = "email" THEN token.sub ELSE Undefined

\* findByIdAndUpdate(id, fields) under the schema's strict mode: a field the
\* schema does not declare (refreshToken, verificationToken) is not written
updateAccount(accs, id, fields) ==
    IF id \notin DOMAIN accs THEN accs
    ELSE [accs EXCEPT ![id] = [f \in DOMAIN @ |-> IF f \in DOMAIN fields THEN fields[f] ELSE @[f]]]

\* userModel.findOne({ _id: id, refreshToken }): the account found, or
\* Undefined.  refreshToken is not a path of the schema: strictQuery drops it
\* from the filter; without strictQuery it matches no stored document.
findByIdAndRefreshToken(id, token) ==
    IF id \in DOMAIN accounts /\ env.strictQuery THEN id ELSE Undefined

\* ------------------------------------------------------------- middleware
\* adminAuth: next() with req.authUser, or the response it ends the request with
adminAuth(token) ==
    IF token = NoToken THEN [status |-> 401, msg |-> "Unauthorized: No token provided"]
    ELSE IF verify(token, "JWT_SECRET_KEY") # "ok" THEN [status |-> 401, msg |-> "Unauthorized: Invalid token"]
    ELSE IF decodedId(token) \notin DOMAIN accounts THEN [status |-> 401, msg |-> "Unauthorized: User not found"]
    ELSE IF accounts[decodedId(token)].role # "admin" THEN [status |-> 403, msg |-> "Forbidden: Admin access required"]
    ELSE [status |-> 200, msg |-> "next", authUser |-> decodedId(token)]

userAuth(token) ==
    IF token = NoToken THEN [status |-> 401, msg |-> "Unauthorized: No token provided"]
    ELSE IF verify(token, "JWT_SECRET_KEY") # "ok" THEN [status |-> 401, msg |-> "Unauthorized: Invalid token"]
    ELSE IF decodedId(token) \notin DOMAIN accounts THEN [status |-> 401, msg |-> "Unauthorized: User not found"]
    ELSE [status |-> 200, msg |-> "next", authUser |-> decodedId(token)]

\* a mutant of verifyEmailMiddleware: isVerified is not looked at
verifyEmailMiddleware_noCheck(authUser) == [status |-> 200, msg |-> "next", authUser |-> authUser]

verifyEmailMiddleware(authUser) ==
    IF authUser \notin DOMAIN accounts THEN [status |-> 404, msg |-> "User not found"]
    ELSE IF ~accounts[authUser].isVerified
    THEN [status |-> 403, msg |-> "Please verify your email before proceeding"]
    ELSE [status |-> 200, msg |-> "next", authUser |-> authUser]

\* the response of a request a middleware ended, or of a handler that threw
Refused(op, status, msg) == [op |-> op, ok |-> FALSE, status |-> status, msg |-> msg, ran |-> FALSE]

\* a mutant of getAllUsers: the route is mounted behind userAuth
getAllUsers_behindUserAuth ==
    /\ Handling("getAllUsers")
    /\ LET auth == userAuth(req.token)
       IN  IF auth.status # 200
           THEN resp' = Refused("getAllUsers", auth.status, auth.msg)
           ELSE resp' = [op |-> "getAllUsers", ok |-> TRUE, status |-> 200, msg |-> "", ran |-> TRUE,
                         authUser |-> auth.authUser, users |-> DOMAIN accounts]
    /\ UNCHANGED <<req, products, carts, orders, sessions, nextOrder, workers, accounts, env, browser>>

\* GET /users: adminAuth, getAllUsers
getAllUsers ==
    /\ Handling("getAllUsers")
    /\ LET auth == adminAuth(req.token)
       IN  IF auth.status # 200
           THEN resp' = Refused("getAllUsers", auth.status, auth.msg)
           ELSE resp' = [op |-> "getAllUsers", ok |-> TRUE, status |-> 200, msg |-> "", ran |-> TRUE,
                         authUser |-> auth.authUser, users |-> DOMAIN accounts]
    /\ UNCHANGED <<req, products, carts, orders, sessions, nextOrder, workers, accounts, env, browser>>

\* POST /profile: userAuth, verifyEmailMiddleware, getUserProfile
getUserProfile ==
    /\ Handling("getUserProfile")
    /\ LET auth == userAuth(req.token)
       IN  IF auth.status # 200
           THEN resp' = Refused("getUserProfile", auth.status, auth.msg)
           ELSE LET verified == verifyEmailMiddleware(auth.authUser)
                IN  IF verified.status # 200
                    THEN resp' = Refused("getUserProfile", verified.status, verified.msg)
                    ELSE resp' = [op |-> "getUserProfile", ok |-> TRUE, status |-> 200, msg |-> "",
                                  ran |-> TRUE, authUser |-> auth.authUser]
    /\ UNCHANGED <<req, products, carts, orders, sessions, nextOrder, workers, accounts, env, browser>>

\* ---------------------------------------------------------------- sessions
\* the body of a response that issues tokens
Issued(op, msg, id) ==
    [op |-> op, ok |-> TRUE, status |-> 200, msg |-> msg, ran |-> TRUE,
     accessToken |-> createAccessToken(id), refreshToken |-> createRefreshToken(id)]

\* the error userLogin throws, "" when it logs the account in
userLoginError(r) ==
    IF r.email = BadEmail THEN "Invalid email format"
    ELSE IF r.email \notin DOMAIN accounts THEN "User with this email does not exist"
    ELSE IF ~accounts[r.email].isVerified THEN "Please verify your email before logging in"
    ELSE IF accounts[r.email].password # Hash(r.password) THEN "Invalid password"
    ELSE ""

\* POST /login and POST /admin are both routed to userLogin
userLogin ==
    /\ Handling("userLogin")
    /\ LET err == userLoginError(req)
       IN  IF err # ""
           THEN /\ resp' = Refused("userLogin",
                                   IF err \in {"Invalid email format", "Invalid password",
                                               "User with this email does not exist"} THEN 400 ELSE 403,
                                   err)
                /\ accounts' = accounts
           ELSE /\ accounts' = updateAccount(accounts, req.email, [refreshToken |-> createRefreshToken(req.email)])
                /\ resp' = Issued("userLogin", "User logged in successfully", req.email)
    /\ UNCHANGED <<req, products, carts, orders, sessions, nextOrder, workers, env, browser>>

\* GET /verify-email?token=
verifyEmail ==
    /\ Handling("verifyEmail")
    /\ IF req.token = NoToken
       THEN /\ resp' = Refused("verifyEmail", 400, "Verification token is required")
            /\ accounts' = accounts
       ELSE IF verify(req.token, "JWT_SECRET_KEY") # "ok"
       THEN /\ resp' = Refused("verifyEmail", 401, "Invalid or expired verification token")
            /\ accounts' = accounts
       ELSE IF decodedEmail(req.token) \notin DOMAIN accounts
       THEN /\ resp' = Refused("verifyEmail", 400, "User not found or token invalid")
            /\ accounts' = accounts
       ELSE LET email == decodedEmail(req.token)
                verified == updateAccount(accounts, email, [isVerified |-> TRUE, verificationToken |-> NoToken])
            IN  /\ accounts' = updateAccount(verified, email, [refreshToken |-> createRefreshToken(email)])
                /\ resp' = Issued("verifyEmail", "Email verified successfully", email)
    /\ UNCHANGED <<req, products, carts, orders, sessions, nextOrder, workers, env, browser>>

\* the error refreshToken throws for a token, "" when it accepts it
refreshTokenError(token) ==
    IF token = NoToken THEN "Refresh token required"
    ELSE IF verify(token, "JWT_REFRESH_SECRET_KEY") = "TokenExpiredError" THEN "Refresh token has expired"
    ELSE IF verify(token, "JWT_REFRESH_SECRET_KEY") # "ok" THEN "Invalid refresh token"
    ELSE IF findByIdAndRefreshToken(decodedId(token), token) = Undefined THEN "Invalid or revoked refresh token"
    ELSE ""

\* POST /refresh-token
refreshToken ==
    /\ Handling("refreshToken")
    /\ LET err == refreshTokenError(req.token)
           user == findByIdAndRefreshToken(decodedId(req.token), req.token)
       IN  IF err # ""
           THEN /\ resp' = Refused("refreshToken", IF err = "Refresh token required" THEN 500 ELSE 401, err)
                /\ accounts' = accounts
           ELSE /\ accounts' = updateAccount(accounts, user, [refreshToken |-> createRefreshToken(user)])
                /\ resp' = Issued("refreshToken", "Token refreshed successfully", user)
    /\ UNCHANGED <<req, products, carts, orders, sessions, nextOrder, workers, env, browser>>

\* POST /logout: the account is named by the access token of the header or,
\* failing that, by the refresh token of the body
logout ==
    /\ Handling("logout")
    /\ LET byAccess == IF req.accessToken # NoToken /\ verify(req.accessToken, "JWT_SECRET_KEY") = "ok"
                       THEN decodedId(req.accessToken) ELSE Undefined
           useRefresh == byAccess = Undefined /\ req.refreshToken # NoToken
           userId == IF useRefresh THEN decodedId(req.refreshToken) ELSE byAccess
       IN  IF useRefresh /\ verify(req.refreshToken, "JWT_REFRESH_SECRET_KEY") # "ok"
           THEN /\ resp' = Refused("logout", 401, "Invalid refresh token")
                /\ accounts' = accounts
           ELSE IF userId = Undefined
           THEN /\ resp' = Refused("logout", 401, "Unauthorized: No valid token provided")
                /\ accounts' = accounts
           ELSE IF userId \notin DOMAIN accounts
           THEN /\ resp' = Refused("logout", 500, "User not found")
                /\ accounts' = accounts
           ELSE /\ accounts' = updateAccount(accounts, userId, [refreshToken |-> NoToken])
                /\ resp' = [op |-> "logout", ok |-> TRUE, status |-> 200,
                            msg |-> "User logged out successfully", ran |-> TRUE, userId |-> userId]
    /\ UNCHANGED <<req, products, carts, orders, sessions, nextOrder, workers, env, browser>>

\* POST /forgot-password: the reset token is stored, then mailed; the mail
\* is sent or fails, and the token stays stored either way
forgotPassword ==
    /\ Handling("forgotPassword")
    /\ IF req.email \notin DOMAIN accounts
       THEN /\ resp' = Refused("forgotPassword", 400, "User with this email does not exist")
            /\ accounts' = accounts
       ELSE /\ accounts' = updateAccount(accounts, req.email,
                                         [resetPasswordToken |-> createResetToken(req.email),
                                          resetPasswordExpires |-> env.now + ResetLifetime])
            /\ \/ resp' = [op |-> "forgotPassword", ok |-> TRUE, status |-> 200,
                          msg |-> "Password reset email sent. Check your inbox.", ran |-> TRUE,
                          mailed |-> createResetToken(req.email)]
               \/ resp' = Refused("forgotPassword", 500, "Failed to send password reset email")
    /\ UNCHANGED <<req, products, carts, orders, sessions, nextOrder, workers, env, browser>>

\* POST /reset-password
resetPassword ==
    /\ Handling("resetPassword")
    /\ IF req.password # req.confirmPassword
       THEN /\ resp' = Refused("resetPassword", 400, "Passwords do not match")
            /\ accounts' = accounts
       ELSE IF req.password = "weak"
       THEN /\ resp' = Refused("resetPassword", 400, "Password is too weak")
            /\ accounts' = accounts
       ELSE IF verify(req.token, "JWT_SECRET_KEY") # "ok"
       THEN /\ resp' = Refused("resetPassword", 401, "Invalid or expired reset token")
            /\ accounts' = accounts
       ELSE LET email == decodedEmail(req.token)
                user == IF email \in DOMAIN accounts /\ accounts[email].resetPasswordToken = req.token
                        THEN email ELSE Undefined
            IN  IF user = Undefined
                THEN /\ resp' = Refused("resetPassword", 404, "User not found or token invalid")
                     /\ accounts' = accounts
                ELSE /\ accounts' = updateAccount(accounts, user,
                                                  [password |-> Hash(req.password), resetPasswordToken |-> NoToken])
                     /\ resp' = [op |-> "resetPassword", ok |-> TRUE, status |-> 200,
                                 msg |-> "Password reset successfully", ran |-> TRUE, user |-> user]
    /\ UNCHANGED <<req, products, carts, orders, sessions, nextOrder, workers, env, browser>>

\* a second passes
Tick ==
    /\ req = NoReq
    /\ env.now < MaxTime
    /\ env' = [env EXCEPT !.now = @ + 1]
    /\ UNCHANGED <<products, carts, orders, sessions, nextOrder, req, resp, workers, accounts, browser>>

\* a week passes: every token signed before has expired
Sleep ==
    /\ req = NoReq
    /\ env.now <= MaxTime
    /\ env' = [env EXCEPT !.now = @ + RefreshLifetime]
    /\ UNCHANGED <<products, carts, orders, sessions, nextOrder, req, resp, workers, accounts, browser>>

\* The session slice: the admin and one registered, not yet verified user; a
\* client presents any token that could have been signed so far for any
\* account, a forged copy of it, or none.
AuthUser == "a@shop"

SignedTokens ==
    LET pastTimes == {t \in (0 .. MaxTime) \cup {u + RefreshLifetime : u \in 0 .. MaxTime} : t <= env.now}
    IN  UNION {{sign("JWT_SECRET_KEY", "id", sub, t, AccessLifetime),
                sign("JWT_REFRESH_SECRET_KEY", "id", sub, t, RefreshLifetime),
                sign("JWT_SECRET_KEY", "email", sub, t, VerificationLifetime),
                sign("JWT_SECRET_KEY", "email", sub, t, ResetLifetime)} :
               sub \in Emails \cup {RootAdmin}, t \in pastTimes}

PresentedTokens ==
    SignedTokens
    \cup {[token EXCEPT !.key = "attacker"] : token \in {k \in SignedTokens : k.sub = RootAdmin}}
    \cup {NoToken}

ReceiveSession ==
    /\ req = NoReq
    /\ req' \in [op : {"userLogin"}, route : {"/login", "/admin"}, email : Emails \cup {RootAdmin, BadEmail},
                 password : {"Str0ng!Passw0rd", "N3w!Passw0rd"}]
                \cup [op : {"verifyEmail", "refreshToken", "getAllUsers", "getUserProfile"}, token : PresentedTokens]
                \cup [op : {"logout"}, accessToken : PresentedTokens, refreshToken : {NoToken}]
                \cup [op : {"logout"}, accessToken : {NoToken}, refreshToken : PresentedTokens]
    /\ resp' = NoResp
    /\ UNCHANGED <<products, carts, orders, sessions, nextOrder, workers, accounts, env, browser>>

NextSession ==
    \/ ReceiveSession \/ Reply \/ Tick \/ Sleep
    \/ userLogin \/ verifyEmail \/ refreshToken \/ logout \/ getAllUsers \/ getUserProfile

\* The reset slice: password resets for the registered user.
ReceiveReset ==
    /\ req = NoReq
    /\ req' \in [op : {"forgotPassword"}, email : Emails]
                \cup [op : {"resetPassword"}, token : PresentedTokens \ {NoToken},
                      password : {"N3w!Passw0rd", "weak"}, confirmPassword : {"N3w!Passw0rd"}]
                \cup [op : {"userLogin"}, route : {"/login"}, email : {AuthUser},
                      password : {"Str0ng!Passw0rd", "N3w!Passw0rd"}]
                \cup [op : {"verifyEmail"}, token : PresentedTokens]
    /\ resp' = NoResp
    /\ UNCHANGED <<products, carts, orders, sessions, nextOrder, workers, accounts, env, browser>>

NextReset ==
    \/ ReceiveReset \/ Reply \/ Tick \/ Sleep
    \/ forgotPassword \/ resetPassword \/ userLogin \/ verifyEmail

\* ------------------------------------------------- requests of the cart slice
\* One shopper and one product act in the cart slice; the other account and
\* the other product are there to be left alone.
CartUser == "u1"
CartProducts == {"p1", NoProduct}
Quantities == 0 .. MaxQty

SizeLists ==
    {<<e>> : e \in Sizes \X Quantities}
    \cup {<<e, f>> : e \in Sizes \X Quantities, f \in Sizes \X Quantities} 

ClientCarts ==
    LET distinctSizes(l) == Len(l) = 1 \/ l[1][1] # l[2][1]
        lists == {l \in SizeLists : distinctSizes(l)}
        single == {l \in lists : Len(l) = 1}
    IN  {<<<<id, l>>>> : id \in CartProducts, l \in lists}
        \cup {<<<<id, l>>, <<jd, m>>>> : id \in CartProducts, jd \in CartProducts, l \in single, m \in single}

CartRequests ==
    [op : {"addToCart", "updateCart"}, userId : {CartUser}, id : CartProducts, size : Sizes, quantity : Quantities]
    \cup [op : {"removeFromCart"}, userId : {CartUser}, id : CartProducts, size : Sizes]
    \cup {[op |-> "mergeCart", userId |-> CartUser, cartData |-> c] :
            c \in {c \in ClientCarts : Len(c) = 1 \/ c[1][1] # c[2][1]}}

AdminRequests(ids) ==
    [op : {"updateProduct"}, id : ids, price : 1 .. MaxPrice, stock : -1 .. MaxStock, sizes : SizeSets]

ReceiveCart ==
    /\ req = NoReq
    /\ req' \in CartRequests \cup AdminRequests({"p1"})
    /\ resp' = NoResp
    /\ UNCHANGED <<products, carts, orders, sessions, nextOrder, workers, accounts, env, browser>>

InitProducts == [id \in ProductIds |-> [price |-> 1, stock |-> MaxStock, sizes |-> {"S"}]]

InitCart ==
    /\ products = InitProducts
    /\ carts = [u \in UserIds |-> IF u = CartUser THEN EmptyCart ELSE ("p2" :> ("S" :> 1))]
    /\ orders = <<>>
    /\ sessions = <<>>
    /\ nextOrder = 1
    /\ req = NoReq
    /\ resp = NoResp
    /\ workers = <<>>
    /\ accounts = InitAccounts
    /\ env = InitEnv
    /\ browser = NoBrowser

NextCart == ReceiveCart \/ Reply \/ addToCart \/ updateCart \/ removeFromCart \/ mergeCart \/ updateProduct

SpecCart == InitCart /\ [][NextCart]_vars

\* ---------------------------------------------------------------- orders
\* An order document; its _id is its key in orders.  A line item keeps the
\* product reference and the name, price, quantity and size of the request.
NewOrder(userId, items, amount, method) ==
    [userId |-> userId, items |-> items, totalAmount |-> amount,
     paymentMethod |-> method, payment |-> FALSE, status |-> "Order Placed"]

\* the loop of validateOrderData over the line items (lines 70-93): the first
\* error thrown, or "" and the amount calculated from the catalog prices
RECURSIVE validateItems(_, _, _)
validateItems(items, i, calculatedAmount) ==
    IF i > Len(items) THEN [error |-> "", calculatedAmount |-> calculatedAmount]
    ELSE LET item == items[i]
         IN  IF item.name \notin DOMAIN products
             THEN [error |-> "Product not found", calculatedAmount |-> calculatedAmount]
             ELSE IF products[item.name].stock < item.quantity
             THEN [error |-> "Insufficient stock", calculatedAmount |-> calculatedAmount]
             ELSE IF products[item.name].price # item.price
             THEN [error |-> "Invalid price", calculatedAmount |-> calculatedAmount]
             ELSE IF item.size # NoSize /\ item.size \notin products[item.name].sizes
             THEN [error |-> "Invalid size", calculatedAmount |-> calculatedAmount]
             ELSE validateItems(items, i + 1,
                                calculatedAmount + products[item.name].price * item.quantity)

validateOrderData(userId, items) ==
    IF userId \notin UserIds
    THEN [error |-> "User not found", calculatedAmount |-> 0]
    ELSE validateItems(items, 1, 0)

\* itemsWithProductIds (lines 86-92)
itemsWithProductIds(items) ==
    [i \in DOMAIN items |->
        [productId |-> items[i].name, name |-> items[i].name, quantity |-> items[i].quantity,
         price |-> items[i].price, size |-> items[i].size]]

\* a mutant of orderError: the claimed amount is not compared
orderError_noTotalCheck(r) == validateOrderData(r.userId, r.items).error

\* the error a placeOrder or placeOrderStripe request is refused with before
\* anything is written, "" when it passes (lines 104-111, 168-175)
orderError(r) ==
    LET v == validateOrderData(r.userId, r.items)
    IN  IF v.error # "" THEN v.error
        ELSE IF v.calculatedAmount + DELIVERY_CHARGES # r.amount THEN "Invalid total amount"
        ELSE ""

\* a mutant of incStock: the update is conditional on stock >= quantity
incStock_ifSufficient(prods, id, quantity) ==
    IF id \in DOMAIN prods /\ prods[id].stock >= quantity
    THEN [prods EXCEPT ![id].stock = @ - quantity]
    ELSE prods

\* updateOne({ _id }, { $inc: { stock: -quantity } })
incStock(prods, id, quantity) ==
    IF id \in DOMAIN prods THEN [prods EXCEPT ![id].stock = @ - quantity] ELSE prods

\* a mutant of decrementStock: only the first line item lowers the stock
decrementStock_firstLineOnly(prods, items, i) ==
    IF Len(items) = 0 THEN prods ELSE incStock(prods, items[1].productId, items[1].quantity)

\* the loop over the line items that lowers the stock (lines 129-132, 253-256)
RECURSIVE decrementStock(_, _, _)
decrementStock(prods, items, i) ==
    IF i > Len(items) THEN prods
    ELSE decrementStock(incStock(prods, items[i].productId, items[i].quantity), items, i + 1)

\* userModel.findByIdAndUpdate(userId, { cartData: {} })
clearCart(cs, userId) ==
    IF userId \in DOMAIN cs THEN [cs EXCEPT ![userId] = EmptyCart] ELSE cs

\* newOrder.save()
saveOrder(os, id, order) == [o \in DOMAIN os \cup {id} |-> IF o = id THEN order ELSE os[o]]

\* a mutant of placeOrder: the order is saved before the amount is compared
placeOrder_savesBeforeTotalCheck ==
    /\ Handling("placeOrder")
    /\ IF validateOrderData(req.userId, req.items).error # ""
       THEN /\ resp' = Fail("placeOrder", orderError(req))
            /\ UNCHANGED <<products, carts, orders, nextOrder>>
       ELSE /\ orders' = saveOrder(orders, nextOrder,
                                   NewOrder(req.userId, itemsWithProductIds(req.items), req.amount, "COD"))
            /\ nextOrder' = nextOrder + 1
            /\ IF orderError(req) # ""
               THEN /\ resp' = Fail("placeOrder", orderError(req))
                    /\ UNCHANGED <<products, carts>>
               ELSE /\ products' = decrementStock(products, itemsWithProductIds(req.items), 1)
                    /\ carts' = clearCart(carts, req.userId)
                    /\ resp' = Ok("placeOrder", "Order Placed Successfully")
    /\ UNCHANGED <<req, sessions, workers, accounts, env, browser>>

placeOrder ==
    /\ Handling("placeOrder")
    /\ IF orderError(req) # ""
       THEN /\ resp' = Fail("placeOrder", orderError(req))
            /\ UNCHANGED <<products, carts, orders, nextOrder>>
       ELSE /\ orders' = saveOrder(orders, nextOrder,
                                   NewOrder(req.userId, itemsWithProductIds(req.items), req.amount, "COD"))
            /\ nextOrder' = nextOrder + 1
            /\ products' = decrementStock(products, itemsWithProductIds(req.items), 1)
            /\ carts' = clearCart(carts, req.userId)
            /\ resp' = Ok("placeOrder", "Order Placed Successfully")
    /\ UNCHANGED <<req, sessions, workers, accounts, env, browser>>

\* The payment provider: sessions[id] is the payment_status of the checkout
\* session created for order id.  Creating a session can fail.
placeOrderStripe ==
    /\ Handling("placeOrderStripe")
    /\ IF orderError(req) # ""
       THEN /\ resp' = Fail("placeOrderStripe", orderError(req))
            /\ UNCHANGED <<orders, nextOrder, sessions>>
       ELSE /\ orders' = saveOrder(orders, nextOrder,
                                   NewOrder(req.userId, itemsWithProductIds(req.items), req.amount, "Stripe"))
            /\ nextOrder' = nextOrder + 1
            /\ \/ /\ sessions' = (nextOrder :> "unpaid") @@ sessions
                  /\ resp' = [Ok("placeOrderStripe", "session created") EXCEPT !.orderId = nextOrder]
               \/ /\ sessions' = sessions
                  /\ resp' = Fail("placeOrderStripe", "Stripe session creation failed")
    /\ UNCHANGED <<req, products, carts, workers, accounts, env, browser>>

\* the customer pays a checkout session at the provider
Pay ==
    /\ req = NoReq
    /\ \E id \in DOMAIN sessions :
          /\ sessions[id] = "unpaid"
          /\ sessions' = [sessions EXCEPT ![id] = "paid"]
    /\ UNCHANGED <<products, carts, orders, nextOrder, req, resp, workers, accounts, env, browser>>

\* a mutant of verifyStripe: an unpaid session empties the cart and keeps the order
verifyStripe_unpaidClearsCart ==
    /\ Handling("verifyStripe")
    /\ IF req.orderId \notin DOMAIN orders
       THEN /\ resp' = Fail("verifyStripe", "Order not found")
            /\ UNCHANGED <<products, carts, orders>>
       ELSE IF req.sessionId \notin DOMAIN sessions
       THEN /\ resp' = Fail("verifyStripe", "No such checkout session")
            /\ UNCHANGED <<products, carts, orders>>
       ELSE IF sessions[req.sessionId] = "paid"
       THEN /\ products' = decrementStock(products, orders[req.orderId].items, 1)
            /\ orders' = [orders EXCEPT ![req.orderId].payment = TRUE]
            /\ carts' = clearCart(carts, req.userId)
            /\ resp' = Ok("verifyStripe", "Payment Successful")
       ELSE /\ carts' = clearCart(carts, req.userId)
            /\ resp' = [op |-> "verifyStripe", ok |-> FALSE, status |-> 200,
                        msg |-> "Payment failed or cancelled"]
            /\ UNCHANGED <<products, orders>>
    /\ UNCHANGED <<req, sessions, nextOrder, workers, accounts, env, browser>>

verifyStripe ==
    /\ Handling("verifyStripe")
    /\ IF req.orderId \notin DOMAIN orders
       THEN /\ resp' = Fail("verifyStripe", "Order not found")
            /\ UNCHANGED <<products, carts, orders>>
       ELSE IF req.sessionId \notin DOMAIN sessions
       THEN /\ resp' = Fail("verifyStripe", "No such checkout session")
            /\ UNCHANGED <<products, carts, orders>>
       ELSE IF sessions[req.sessionId] = "paid"
       THEN /\ products' = decrementStock(products, orders[req.orderId].items, 1)
            /\ orders' = [orders EXCEPT ![req.orderId].payment = TRUE]
            /\ carts' = clearCart(carts, req.userId)
            /\ resp' = Ok("verifyStripe", "Payment Successful")
       ELSE /\ orders' = [o \in DOMAIN orders \ {req.orderId} |-> orders[o]]
            /\ resp' = [op |-> "verifyStripe", ok |-> FALSE, status |-> 200,
                        msg |-> "Payment failed or cancelled"]
            /\ UNCHANGED <<products, carts>>
    /\ UNCHANGED <<req, sessions, nextOrder, workers, accounts, env, browser>>

\* ---------------------------------------------------------- order status
\* validStatuses
Statuses == {"Order Placed", "Pending", "Shipped", "Delivered", "Cancelled"}

\* orderModel.findByIdAndUpdate(orderId, { status }): no document, no change
setStatus(os, orderId, status) ==
    IF orderId \in DOMAIN os THEN [os EXCEPT ![orderId].status = status] ELSE os

\* a mutant of updateOrderStatus: the status is not compared with validStatuses
updateOrderStatus_anyStatus ==
    /\ Handling("updateOrderStatus")
    /\ orders' = setStatus(orders, req.orderId, req.status)
    /\ resp' = Ok("updateOrderStatus", "Status Updated Successfully")
    /\ UNCHANGED <<req, products, carts, sessions, nextOrder, workers, accounts, env, browser>>

\* a mutant of updateOrderStatus: a delivered or cancelled order keeps its status
updateOrderStatus_finalStatesKept ==
    /\ Handling("updateOrderStatus")
    /\ IF req.status \notin Statuses
       THEN /\ resp' = Fail("updateOrderStatus", "Invalid status")
            /\ orders' = orders
       ELSE IF req.orderId \in DOMAIN orders /\ orders[req.orderId].status \in {"Delivered", "Cancelled"}
       THEN /\ resp' = Fail("updateOrderStatus", "Invalid status")
            /\ orders' = orders
       ELSE /\ orders' = setStatus(orders, req.orderId, req.status)
            /\ resp' = Ok("updateOrderStatus", "Status Updated Successfully")
    /\ UNCHANGED <<req, products, carts, sessions, nextOrder, workers, accounts, env, browser>>

updateOrderStatus ==
    /\ Handling("updateOrderStatus")
    /\ IF req.status \notin Statuses
       THEN /\ resp' = Fail("updateOrderStatus", "Invalid status")
            /\ orders' = orders
       ELSE /\ orders' = setStatus(orders, req.orderId, req.status)
            /\ resp' = Ok("updateOrderStatus", "Status Updated Successfully")
    /\ UNCHANGED <<req, products, carts, sessions, nextOrder, workers, accounts, env, browser>>

\* ---------------------------------------------------------- order reads
\* populate('items.productId', 'name images'): the reference is replaced by
\* the product document, or by null when no product has that _id
Null == [_id |-> "null"]

populate(items) ==
    [i \in DOMAIN items |->
        [items[i] EXCEPT !.productId =
            IF @ \in DOMAIN products THEN [_id |-> @, name |-> @] ELSE Null]]

\* order.items.filter(item => item.productId !== null)
withoutNullProducts(items) == SelectSeq(items, LAMBDA item : item.productId # Null)

\* sort({ date: -1 }) or sort({ date: 1 }): order ids grow with the date
RECURSIVE sortByDate(_, _)
sortByDate(ids, descending) ==
    IF ids = {} THEN <<>>
    ELSE LET first == CHOOSE x \in ids : \A y \in ids : IF descending THEN y <= x ELSE x <= y
         IN  <<first>> \o sortByDate(ids \ {first}, descending)

\* the orders a read answers with (page 1 of the default limit of 10)
foundOrders(ids, descending) ==
    LET sorted == sortByDate(ids, descending)
    IN  [k \in DOMAIN sorted |->
            [_id |-> sorted[k],
             userId |-> orders[sorted[k]].userId,
             items |-> withoutNullProducts(populate(orders[sorted[k]].items)),
             totalAmount |-> orders[sorted[k]].totalAmount,
             paymentMethod |-> orders[sorted[k]].paymentMethod,
             payment |-> orders[sorted[k]].payment,
             status |-> orders[sorted[k]].status]]

userOrders ==
    /\ Handling("userOrders")
    /\ LET ids == {id \in DOMAIN orders : orders[id].userId = req.userId}
       IN  resp' = [op |-> "userOrders", ok |-> TRUE, status |-> 200, msg |-> "",
                    orders |-> foundOrders(ids, TRUE), totalOrders |-> Cardinality(ids)]
    /\ UNCHANGED <<req, products, carts, orders, sessions, nextOrder, workers, accounts, env, browser>>

allOrders ==
    /\ Handling("allOrders")
    /\ IF req.sort \notin {"date-desc", "date-asc"}
       THEN resp' = Fail("allOrders", "Invalid sort parameter")
       ELSE resp' = [op |-> "allOrders", ok |-> TRUE, status |-> 200, msg |-> "",
                     orders |-> foundOrders(DOMAIN orders, req.sort = "date-desc"),
                     totalOrders |-> Cardinality(DOMAIN orders)]
    /\ UNCHANGED <<req, products, carts, orders, sessions, nextOrder, workers, accounts, env, browser>>

\* ----------------------------------------------- requests of the order slices
Prices == 1 .. MaxPrice
Items == [name : ProductIds \cup {NoProduct}, price : Prices, quantity : 1 .. MaxQty,
          size : {"M", NoSize}]
PlainItems == {it \in Items : it.price = 1 /\ it.quantity = 1 /\ it.size = NoSize}

\* one line, or a line followed by a plain line
ItemLists == {<<it>> : it \in Items} \cup {<<it, jt>> : it \in Items, jt \in PlainItems}

\* the total the storefront computes from the prices it shows
RECURSIVE ClientTotal(_, _)
ClientTotal(items, i) ==
    IF i > Len(items) THEN DELIVERY_CHARGES
    ELSE items[i].price * items[i].quantity + ClientTotal(items, i + 1)

PlaceRequests(ops, lists) ==
    {[op |-> o, userId |-> "u1", items |-> l, amount |-> ClientTotal(l, 1) + d] :
        o \in ops, l \in lists, d \in {0, 1}}
    \cup {[op |-> o, userId |-> NoUser, items |-> <<it>>, amount |-> ClientTotal(<<it>>, 1)] :
        o \in ops, it \in PlainItems}

InitOrder ==
    /\ products = InitProducts
    /\ carts = [u \in UserIds |-> IF u = "u1" THEN ("p1" :> ("S" :> 1)) ELSE ("p2" :> ("S" :> 1))]
    /\ orders = <<>>
    /\ sessions = <<>>
    /\ nextOrder = 1
    /\ req = NoReq
    /\ resp = NoResp
    /\ workers = <<>>
    /\ accounts = InitAccounts
    /\ env = InitEnv
    /\ browser = NoBrowser

\* The checkout slice: an admin edits product p1, then order requests of both
\* payment methods with every kind of line item arrive.
MaxCheckouts == 1

ReceiveOrder ==
    /\ req = NoReq
    /\ \/ /\ nextOrder <= MaxCheckouts
          /\ req' \in PlaceRequests({"placeOrder", "placeOrderStripe"}, ItemLists)
       \/ /\ nextOrder = 1
          /\ req' \in AdminRequests({"p1"})
    /\ resp' = NoResp
    /\ UNCHANGED <<products, carts, orders, sessions, nextOrder, workers, accounts, env, browser>>

NextOrder == ReceiveOrder \/ Reply \/ placeOrder \/ placeOrderStripe \/ updateProduct

SpecOrder == InitOrder /\ [][NextOrder]_vars

\* The payment slice: orders of one plain line, paid by card or on delivery,
\* the customer paying or not, and verification requests naming any order,
\* any session and any account.  Verification requests stop arriving once a
\* stock is below zero, which keeps the stocks in a finite range.
StripeLists == {<<it>> : it \in {it \in PlainItems : it.name \in ProductIds}}

VerifyRequests ==
    [op : {"verifyStripe"}, orderId : 1 .. MaxOrders, sessionId : 1 .. MaxOrders,
     userId : UserIds \cup {NoUser}]

ReceiveStripe ==
    /\ req = NoReq
    /\ \/ /\ nextOrder <= MaxOrders
          /\ req' \in PlaceRequests({"placeOrder", "placeOrderStripe"}, StripeLists)
       \/ /\ \A id \in ProductIds : products[id].stock >= 0
          /\ req' \in VerifyRequests
    /\ resp' = NoResp
    /\ UNCHANGED <<products, carts, orders, sessions, nextOrder, workers, accounts, env, browser>>

NextStripe == ReceiveStripe \/ Reply \/ placeOrder \/ placeOrderStripe \/ Pay \/ verifyStripe

SpecStripe == InitOrder /\ [][NextStripe]_vars

\* The history slice: orders of one or two lines are placed, an admin edits
\* product p1 and removes products, and the orders are read back.
HistoryItems == {it \in Items : it.name \in ProductIds /\ it.quantity = 1 /\ it.size = NoSize}

HistoryRequests ==
    [op : {"userOrders"}, userId : UserIds \cup {NoUser}]
    \cup [op : {"allOrders"}, sort : {"date-desc", "date-asc", "price"}]
    \cup [op : {"removeProduct"}, id : ProductIds \cup {NoProduct}]
    \cup AdminRequests({"p1"})

ReceiveHistory ==
    /\ req = NoReq
    /\ \/ /\ nextOrder <= MaxCheckouts
          /\ \E l \in {<<it>> : it \in HistoryItems}
                       \cup {l \in {<<it, jt>> : it \in HistoryItems, jt \in PlainItems} :
                                l[1].name = "p1" /\ l[2].name = "p2"} :
                req' = [op |-> "placeOrder", userId |-> "u1", items |-> l, amount |-> ClientTotal(l, 1)]
       \/ req' \in HistoryRequests
    /\ resp' = NoResp
    /\ UNCHANGED <<products, carts, orders, sessions, nextOrder, workers, accounts, env, browser>>

NextHistory ==
    ReceiveHistory \/ Reply \/ placeOrder \/ updateProduct \/ removeProduct \/ userOrders \/ allOrders

SpecHistory == InitOrder /\ [][NextHistory]_vars

\* The status slice: orders of one plain line are placed by both payment
\* methods and an admin sets the status of any order id to any string.
StatusRequests ==
    [op : {"updateOrderStatus"}, orderId : 1 .. MaxOrders, status : Statuses \cup {"Returned"}]

ReceiveStatus ==
    /\ req = NoReq
    /\ \/ /\ nextOrder <= MaxOrders
          /\ req' \in PlaceRequests({"placeOrder", "placeOrderStripe"}, StripeLists)
       \/ req' \in StatusRequests
    /\ resp' = NoResp
    /\ UNCHANGED <<products, carts, orders, sessions, nextOrder, workers, accounts, env, browser>>

NextStatus == ReceiveStatus \/ Reply \/ placeOrder \/ placeOrderStripe \/ updateOrderStatus

SpecStatus == InitOrder /\ [][NextStatus]_vars

SpecAccount == InitOrder /\ [][NextAccount]_vars

\* ------------------------------------------------------------- storefront
\* The shop context of the storefront for one account. browser.runs holds the
\* runs of the initialization effect, each with the token and csrfToken of
\* the render that started it and the await it is suspended at;
\* browser.posted counts the POST /cart/merge sent since the page loaded.
ShopUser == "u1"

\* the cart getCartData rebuilds from the cartItems of getUserCart: products
\* that exist, sizes the product has, quantities above 0
fetchedCart(cart) ==
    LET kept(id) == {size \in DOMAIN cart[id] : size \in products[id].sizes /\ cart[id][size] > 0}
        ids == {id \in DOMAIN cart : id \in DOMAIN products /\ kept(id) # {}}
    IN  [id \in ids |-> [size \in kept(id) |-> cart[id][size]]]

\* the cartData of the request body as the loops of mergeCart walk it, the
\* keys of an object in the order Object.entries lists them
objectEntries(cart) ==
    LET objectKeys(S) == CHOOSE keys \in [1 .. Cardinality(S) -> S] :
                            \A i, j \in 1 .. Cardinality(S) : i # j => keys[i] # keys[j]
        ids == objectKeys(DOMAIN cart)
    IN  [i \in DOMAIN ids |->
            <<ids[i], LET sizes == objectKeys(DOMAIN cart[ids[i]])
                      IN  [j \in DOMAIN sizes |-> <<sizes[j], cart[ids[i]][sizes[j]]>>]>>]

NewRun(token, csrfToken) == [pc |-> "start", token |-> token, csrfToken |-> csrfToken, payload |-> EmptyCart]

\* initializeApp up to its first await
initializeApp(i) ==
    /\ browser.runs[i].pc = "start"
    /\ browser' = [browser EXCEPT !.runs[i].pc = IF browser.runs[i].csrfToken = NoCsrf THEN "csrf" ELSE "products"]
    /\ UNCHANGED <<products, carts, orders, sessions, nextOrder, req, resp, workers, accounts, env>>

\* fetchCsrfToken resolves: setCsrfToken starts a run of the effect when the
\* value changes, and this run goes on to getProductsData
fetchCsrfToken(i) ==
    /\ browser.runs[i].pc = "csrf"
    /\ browser' = [browser EXCEPT
                      !.csrfToken = Csrf,
                      !.runs = IF browser.csrfToken = Csrf
                               THEN [@ EXCEPT ![i].pc = "products"]
                               ELSE Append([@ EXCEPT ![i].pc = "products"], NewRun(browser.token, Csrf))]
    /\ UNCHANGED <<products, carts, orders, sessions, nextOrder, req, resp, workers, accounts, env>>

\* getProductsData resolves and the run chooses between mergeCart, nothing
\* and getCartData; mergeCart and getCartData of a render without token or
\* csrfToken read the local cart and send nothing
getProductsData(i) ==
    LET run == browser.runs[i]
        local == run.token = NoBearer \/ run.csrfToken = NoCsrf
    IN  /\ run.pc = "products"
        /\ IF run.token # NoBearer /\ browser.prevTokenRef = NoBearer /\ ~local /\ browser.cartStore # EmptyCart
           THEN browser' = [browser EXCEPT !.cartStore = EmptyCart,
                                           !.posted = @ + 1,
                                           !.runs[i].payload = browser.cartStore,
                                           !.runs[i].pc = "merge"]
           ELSE IF local
           THEN browser' = [browser EXCEPT !.prevTokenRef = run.token, !.runs[i].pc = "done"]
           ELSE browser' = [browser EXCEPT !.runs[i].pc = "cart"]
        /\ UNCHANGED <<products, carts, orders, sessions, nextOrder, req, resp, workers, accounts, env>>

\* POST /cart/merge is served and answered; the run goes on to getCartData
postCartMerge(i) ==
    /\ browser.runs[i].pc = "merge"
    /\ carts' = [carts EXCEPT ![ShopUser] =
                    mergeProducts([cart |-> @, ignored |-> <<>>], objectEntries(browser.runs[i].payload), 1).cart]
    /\ browser' = [browser EXCEPT !.runs[i].pc = "cart"]
    /\ UNCHANGED <<products, orders, sessions, nextOrder, req, resp, workers, accounts, env>>

\* GET /cart is answered: saveCartToStore, then prevTokenRef.current = token
getCartData(i) ==
    /\ browser.runs[i].pc = "cart"
    /\ browser' = [browser EXCEPT !.cartStore = fetchedCart(carts[ShopUser]),
                                  !.prevTokenRef = browser.runs[i].token,
                                  !.runs[i].pc = "done"]
    /\ UNCHANGED <<products, carts, orders, sessions, nextOrder, req, resp, workers, accounts, env>>

\* the login page stores the cookies and calls setToken; the mergeCart it
\* then calls is the one of the render before the login, which has no token
handleLogin ==
    /\ browser.runs # <<>>
    /\ browser.token = NoBearer
    /\ browser.csrfToken # NoCsrf
    /\ browser' = [browser EXCEPT !.token = Bearer, !.runs = Append(@, NewRun(Bearer, browser.csrfToken))]
    /\ UNCHANGED <<products, carts, orders, sessions, nextOrder, req, resp, workers, accounts, env>>

\* the page is loaded: localStorage and the cookies are kept, the state of
\* the provider starts afresh
loadPage(token, cartStore) ==
    [token |-> token, cookie |-> token, csrfToken |-> NoCsrf, prevTokenRef |-> NoBearer,
     cartStore |-> cartStore, posted |-> 0, runs |-> <<NewRun(token, NoCsrf)>>]

\* the user reloads the page once it has settled
Reload ==
    /\ browser.runs # <<>>
    /\ \A i \in DOMAIN browser.runs : browser.runs[i].pc = "done"
    /\ browser' = loadPage(browser.token, browser.cartStore)
    /\ UNCHANGED <<products, carts, orders, sessions, nextOrder, req, resp, workers, accounts, env>>

InitShop ==
    LET guestCarts == {EmptyCart} \cup {(id :> ("S" :> 1)) : id \in ProductIds}
    IN  /\ products = InitProducts
        /\ carts \in {[u \in UserIds |-> IF u = ShopUser THEN c ELSE EmptyCart] : c \in guestCarts}
        /\ orders = <<>>
        /\ sessions = <<>>
        /\ nextOrder = 1
        /\ req = NoReq
        /\ resp = NoResp
        /\ workers = <<>>
        /\ accounts = InitAccounts
        /\ env = InitEnv
        /\ browser \in {loadPage(NoBearer, c) : c \in guestCarts}
                       \cup {loadPage(Bearer, fetchedCart(carts[ShopUser]))}

NextShop ==
    \/ \E i \in DOMAIN browser.runs :
          \/ initializeApp(i) \/ fetchCsrfToken(i) \/ getProductsData(i) \/ postCartMerge(i) \/ getCartData(i)
    \/ handleLogin
    \/ Reload

SpecShop == InitShop /\ [][NextShop]_vars

\* the session and reset slices start after AuthUser has registered, under
\* either setting of strictQuery
InitAuth ==
    /\ products = InitProducts
    /\ carts = [u \in UserIds |-> EmptyCart]
    /\ orders = <<>>
    /\ sessions = <<>>
    /\ nextOrder = 1
    /\ req = NoReq
    /\ resp = NoResp
    /\ workers = <<>>
    /\ accounts = saveAccount(InitAccounts, AuthUser, "user", "Str0ng!Passw0rd")
    /\ env \in {[InitEnv EXCEPT !.strictQuery = b] : b \in BOOLEAN}
    /\ browser = NoBrowser

SpecSession == InitAuth /\ [][NextSession]_vars

SpecReset == InitAuth /\ [][NextReset]_vars

\* ------------------------------------------------ interleaved placeOrder
\* Two placeOrder handlers run at once.  A handler gives way at every await:
\* workers[w].pc is the database call it runs next, and productMap is the
\* product documents it read in validateOrderData.
Workers == {"w1", "w2"}

Idle == [pc |-> "idle"]

raceReceive(w) ==
    /\ workers[w].pc = "idle"
    /\ \E r \in PlaceRequests({"placeOrder"},
                              {<<it>> : it \in {it \in Items : it.name \in ProductIds /\ it.price = 1 /\ it.size = NoSize}}) :
          workers' = [workers EXCEPT ![w] = [pc |-> "findUser", request |-> r]]
    /\ UNCHANGED <<products, carts, orders, sessions, nextOrder, req, resp, accounts, env, browser>>

\* await userModel.findById(userId)   (line 59)
raceFindUser(w) ==
    /\ workers[w].pc = "findUser"
    /\ workers' = [workers EXCEPT ![w] =
          IF workers[w].request.userId \in UserIds
          THEN [@ EXCEPT !.pc = "findProducts"]
          ELSE [pc |-> "done", request |-> @.request, response |-> Fail("placeOrder", "User not found")]]
    /\ UNCHANGED <<products, carts, orders, sessions, nextOrder, req, resp, accounts, env, browser>>

\* await productModel.find(...), then the checks on the documents read and on
\* the amount   (lines 66-93, 108-111)
raceValidate(w) ==
    /\ workers[w].pc = "findProducts"
    /\ workers' = [workers EXCEPT ![w] =
          IF orderError(workers[w].request) # ""
          THEN [pc |-> "done", request |-> @.request,
                response |-> Fail("placeOrder", orderError(workers[w].request))]
          ELSE [pc |-> "save", request |-> @.request, productMap |-> products]]
    /\ UNCHANGED <<products, carts, orders, sessions, nextOrder, req, resp, accounts, env, browser>>

\* await newOrder.save()   (line 125)
raceSave(w) ==
    /\ workers[w].pc = "save"
    /\ orders' = saveOrder(orders, nextOrder,
                           NewOrder(workers[w].request.userId,
                                    itemsWithProductIds(workers[w].request.items),
                                    workers[w].request.amount, "COD"))
    /\ nextOrder' = nextOrder + 1
    /\ workers' = [workers EXCEPT ![w] =
          [pc |-> "updateStock", request |-> @.request, productMap |-> @.productMap, item |-> 1]]
    /\ UNCHANGED <<products, carts, sessions, req, resp, accounts, env, browser>>

\* await productModel.updateOne(...) for one line item   (line 130)
raceUpdateStock(w) ==
    /\ workers[w].pc = "updateStock"
    /\ LET items == itemsWithProductIds(workers[w].request.items)
           i == workers[w].item
       IN  IF i > Len(items)
           THEN /\ workers' = [workers EXCEPT ![w].pc = "clearCart"]
                /\ products' = products
           ELSE /\ products' = incStock(products, items[i].productId, items[i].quantity)
                /\ workers' = [workers EXCEPT ![w].item = i + 1]
    /\ UNCHANGED <<carts, orders, sessions, nextOrder, req, resp, accounts, env, browser>>

\* await userModel.findByIdAndUpdate(userId, { cartData: {} }) and res.json   (lines 135-138)
raceClearCart(w) ==
    /\ workers[w].pc = "clearCart"
    /\ carts' = clearCart(carts, workers[w].request.userId)
    /\ workers' = [workers EXCEPT ![w] =
          [pc |-> "done", request |-> @.request, productMap |-> @.productMap,
           response |-> Ok("placeOrder", "Order Placed Successfully")]]
    /\ UNCHANGED <<products, orders, sessions, nextOrder, req, resp, accounts, env, browser>>

InitRace ==
    /\ products \in {[InitProducts EXCEPT !["p1"].stock = n] : n \in 1 .. MaxStock}
    /\ carts = [u \in UserIds |-> IF u = "u1" THEN ("p1" :> ("S" :> 1)) ELSE ("p2" :> ("S" :> 1))]
    /\ orders = <<>>
    /\ sessions = <<>>
    /\ nextOrder = 1
    /\ req = NoReq
    /\ resp = NoResp
    /\ workers = [w \in Workers |-> Idle]
    /\ accounts = InitAccounts
    /\ env = InitEnv
    /\ browser = NoBrowser

NextRace ==
    \E w \in Workers :
        \/ raceReceive(w)
        \/ raceFindUser(w)
        \/ raceValidate(w)
        \/ raceSave(w)
        \/ raceUpdateStock(w)
        \/ raceClearCart(w)

SpecRace == InitRace /\ [][NextRace]_vars

\* ------------------------------------------------ interleaved reviews
\* Two addProductReview handlers run at once, each giving way at its awaits.
\* In this slice a product document also carries its reviews and ratings.

\* the checks on rating and comment made before the first await
reviewInputError(r) ==
    IF r.rating < 1 \/ r.rating > 5 THEN "Rating must be an integer between 1 and 5"
    ELSE IF r.comment = "" THEN "Comment cannot be empty"
    ELSE ""

ReviewFail(msg) ==
    [op |-> "addProductReview", ok |-> FALSE, msg |-> msg,
     status |-> IF msg \in {"Product not found", "You have already reviewed this product"} THEN 400 ELSE 500]

reviewReceive(w) ==
    /\ workers[w].pc \in {"idle", "done"}
    /\ \E r \in [productId : ProductIds \cup {NoProduct}, userId : UserIds, rating : {0, 1, 5},
                 comment : {"", "fine"}] :
          workers' = [workers EXCEPT ![w] =
              IF reviewInputError(r) # ""
              THEN [pc |-> "done", request |-> r, response |-> ReviewFail(reviewInputError(r))]
              ELSE [pc |-> "findProduct", request |-> r]]
    /\ UNCHANGED <<products, carts, orders, sessions, nextOrder, req, resp, accounts, env, browser>>

\* await productModel.findById(productId): the handler keeps the document read
reviewFindProduct(w) ==
    /\ workers[w].pc = "findProduct"
    /\ workers' = [workers EXCEPT ![w] =
          IF @.request.productId \notin DOMAIN products
          THEN [pc |-> "done", request |-> @.request, response |-> ReviewFail("Product not found")]
          ELSE [pc |-> "findOrder", request |-> @.request, product |-> products[@.request.productId]]]
    /\ UNCHANGED <<products, carts, orders, sessions, nextOrder, req, resp, accounts, env, browser>>

\* orderModel.findOne({ userId, 'items.productId': productId, status: 'Delivered' })
deliveredOrder(userId, productId) ==
    \E o \in DOMAIN orders :
        /\ orders[o].userId = userId
        /\ orders[o].status = "Delivered"
        /\ \E i \in DOMAIN orders[o].items : orders[o].items[i].productId = productId

\* await orderModel.findOne(...), then the test for a review of this user in
\* the document read and the push onto it
reviewFindOrder(w) ==
    /\ workers[w].pc = "findOrder"
    /\ LET r == workers[w].request
           read == workers[w].product
       IN  workers' = [workers EXCEPT ![w] =
              IF ~deliveredOrder(r.userId, r.productId)
              THEN [pc |-> "done", request |-> r,
                    response |-> ReviewFail("You can only review products you have purchased and received")]
              ELSE IF \E i \in DOMAIN read.reviews : read.reviews[i].userId = r.userId
              THEN [pc |-> "done", request |-> r, response |-> ReviewFail("You have already reviewed this product")]
              ELSE [pc |-> "save", request |-> r,
                    product |-> [read EXCEPT !.reviews = Append(@, [userId |-> r.userId, rating |-> r.rating]),
                                             !.ratings = Len(read.reviews) + 1]]]
    /\ UNCHANGED <<products, carts, orders, sessions, nextOrder, req, resp, accounts, env, browser>>

\* product.save(): the pushed review is appended to the stored array and
\* ratings is set to the length the handler computed
pushReview(prods, id, read, review) ==
    IF id \in DOMAIN prods
    THEN [prods EXCEPT ![id].reviews = Append(@, review), ![id].ratings = read.ratings]
    ELSE prods

\* await product.save() and res.status(201)
reviewSave(w) ==
    /\ workers[w].pc = "save"
    /\ LET r == workers[w].request
           read == workers[w].product
       IN  /\ products' = pushReview(products, r.productId, read, read.reviews[Len(read.reviews)])
           /\ workers' = [workers EXCEPT ![w] =
                 [pc |-> "done", request |-> r,
                  response |-> [op |-> "addProductReview", ok |-> TRUE, status |-> 201,
                                msg |-> "Review added successfully"]]]
    /\ UNCHANGED <<carts, orders, sessions, nextOrder, req, resp, accounts, env, browser>>

\* no product has a review, and each account has one order of p1: delivered
\* for u1, shipped for u2
InitReview ==
    LET line == itemsWithProductIds(<<[name |-> "p1", price |-> 1, quantity |-> 1, size |-> NoSize]>>)
        saved == saveOrder(saveOrder(<<>>, 1, NewOrder("u1", line, 51, "COD")), 2, NewOrder("u2", line, 51, "COD"))
    IN  /\ products = [id \in ProductIds |->
                          [price |-> 1, stock |-> MaxStock, sizes |-> {"S"}, reviews |-> <<>>, ratings |-> 0]]
        /\ carts = [u \in UserIds |-> EmptyCart]
        /\ orders = setStatus(setStatus(saved, 1, "Delivered"), 2, "Shipped")
        /\ sessions = <<>>
        /\ nextOrder = 3
        /\ req = NoReq
        /\ resp = NoResp
        /\ workers = [w \in Workers |-> Idle]
        /\ accounts = InitAccounts
        /\ env = InitEnv
        /\ browser = NoBrowser

NextReview ==
    \E w \in Workers :
        \/ reviewReceive(w)
        \/ reviewFindProduct(w)
        \/ reviewFindOrder(w)
        \/ reviewSave(w)

SpecReview == InitReview /\ [][NextReview]_vars

\* ---------------------------------------------------- claims: checkout
PlacingOrder == Handling("placeOrder") \/ Handling("placeOrderStripe")

\* a line item fails the product, stock, price or size check
LineFails(item) ==
    \/ item.name \notin ProductIds
    \/ /\ item.name \in ProductIds
       /\ \/ item.quantity > products[item.name].stock
          \/ item.price # products[item.name].price
          \/ item.size # NoSize /\ item.size \notin products[item.name].sizes

SomeLineFails(items) == \E i \in DOMAIN items : LineFails(items[i])

\* the total at the current catalog prices, delivery included
RECURSIVE CatalogTotal(_, _)
CatalogTotal(items, i) ==
    IF i > Len(items) THEN DELIVERY_CHARGES
    ELSE products[items[i].name].price * items[i].quantity + CatalogTotal(items, i + 1)

TotalDiffers(r) ==
    /\ \A i \in DOMAIN r.items : r.items[i].name \in ProductIds
    /\ CatalogTotal(r.items, 1) # r.amount

\* the quantity the line items order of one product
RECURSIVE Ordered(_, _, _)
Ordered(items, id, i) ==
    IF i > Len(items) THEN 0
    ELSE (IF items[i].name = id THEN items[i].quantity ELSE 0) + Ordered(items, id, i + 1)

\* C1 as stated: given an existing account, a placeOrder or placeOrderStripe
\* request is rejected if and only if the total at catalog prices differs
\* from the claimed amount or some line item fails its check.
C1_RejectedIffInvalid ==
    [][(PlacingOrder /\ req.userId \in UserIds) =>
        (~resp'.ok <=> (SomeLineFails(req.items) \/ TotalDiffers(req)))]_vars

\* C1 amended: given an existing account, a request with a failing line item
\* or a differing total is rejected; every other placeOrder request is
\* accepted; every other placeOrderStripe request is accepted when the
\* payment session is created and rejected when its creation fails.
C1_RejectedIffInvalidOrNoSession ==
    [][(PlacingOrder /\ req.userId \in UserIds) =>
        IF SomeLineFails(req.items) \/ TotalDiffers(req)
        THEN ~resp'.ok
        ELSE IF req.op = "placeOrder"
        THEN resp'.ok
        ELSE resp'.ok <=> (nextOrder \in DOMAIN sessions')]_vars

\* C1 witness: a two-line order has been accepted.
C1_Witness ==
    /\ req.op \in {"placeOrder", "placeOrderStripe"}
    /\ resp.op = req.op
    /\ resp.ok
    /\ Len(req.items) = 2
    /\ req.items[1].name # req.items[2].name

\* C2: a successful cash-on-delivery placeOrder persists one order with
\* status "Order Placed", empties the owner's cart, and lowers the stock of
\* every product by the quantity ordered of it, other products by nothing.
C2_SuccessfulOrderEffects ==
    [][(Handling("placeOrder") /\ resp'.ok) =>
        /\ \E id \in DOMAIN orders' \ DOMAIN orders :
              /\ DOMAIN orders' = DOMAIN orders \cup {id}
              /\ orders'[id].status = "Order Placed"
              /\ orders'[id].userId = req.userId
              /\ orders'[id].paymentMethod = "COD"
        /\ \A id \in DOMAIN orders : orders'[id] = orders[id]
        /\ carts'[req.userId] = EmptyCart
        /\ \A u \in UserIds \ {req.userId} : carts'[u] = carts[u]
        /\ \A id \in ProductIds :
              products'[id] = [products[id] EXCEPT !.stock = @ - Ordered(req.items, id, 1)]]_vars

\* C2 witness: an order with two lines of one product has been placed and the
\* owner's cart is empty.
C2_Witness ==
    /\ req.op = "placeOrder"
    /\ resp.op = "placeOrder"
    /\ resp.ok
    /\ Len(req.items) = 2
    /\ req.items[1].name = req.items[2].name
    /\ carts[req.userId] = EmptyCart

\* C3: in every state reached by requests handled one at a time, the stock
\* of every product is a non-negative integer.
C3_StockNonNegative == \A id \in ProductIds : products[id].stock >= 0

\* C7: a placeOrder or placeOrderStripe request that fails validation is
\* answered success=false with a reason and changes no order, stock or cart.
C7_RejectedOrderHasNoEffect ==
    [][(PlacingOrder /\ (req.userId \notin UserIds \/ SomeLineFails(req.items) \/ TotalDiffers(req))) =>
        /\ ~resp'.ok
        /\ resp'.msg # ""
        /\ orders' = orders
        /\ products' = products
        /\ carts' = carts
        /\ sessions' = sessions]_vars

\* C7 witness: an order whose lines all pass has been rejected for its total.
C7_Witness ==
    /\ req.op \in {"placeOrder", "placeOrderStripe"}
    /\ resp.op = req.op
    /\ ~resp.ok
    /\ resp.msg = "Invalid total amount"
    /\ orders = <<>>

\* ----------------------------------------------------- claims: payment
\* C5: an order created by placeOrderStripe starts with payment = FALSE, and
\* the payment flag of an order becomes TRUE only in a verifyStripe step for
\* that order in which the session created for that same order is paid.
C5_PaidOnlyByOwnSession ==
    [][\A id \in DOMAIN orders' :
          /\ id \notin DOMAIN orders => ~orders'[id].payment
          /\ (id \in DOMAIN orders /\ ~orders[id].payment /\ orders'[id].payment) =>
                /\ Handling("verifyStripe")
                /\ req.orderId = id
                /\ req.sessionId = id
                /\ sessions[id] = "paid"]_vars

\* the request is a verifyStripe for a stored order and the provider reports
\* the named session as not paid
VerifyingUnpaid ==
    /\ Handling("verifyStripe")
    /\ req.orderId \in DOMAIN orders
    /\ req.sessionId \in DOMAIN sessions
    /\ sessions[req.sessionId] # "paid"

\* C6: verifyStripe for an existing order whose session is reported not paid
\* deletes the order, answers success=false and changes no stock and no cart.
C6_UnpaidVerifyDeletesOrder ==
    [][VerifyingUnpaid =>
        /\ DOMAIN orders' = DOMAIN orders \ {req.orderId}
        /\ \A id \in DOMAIN orders' : orders'[id] = orders[id]
        /\ ~resp'.ok
        /\ products' = products
        /\ carts' = carts]_vars

\* C6 witness: a verifyStripe naming an account with a non-empty cart has
\* been answered "Payment failed or cancelled" and the order is gone.
C6_Witness ==
    /\ req.op = "verifyStripe"
    /\ resp.op = "verifyStripe"
    /\ ~resp.ok
    /\ resp.msg = "Payment failed or cancelled"
    /\ req.orderId \notin DOMAIN orders
    /\ req.userId \in UserIds
    /\ carts[req.userId] # EmptyCart

\* ------------------------------------------------- claims: interleaving
\* worker w has answered success to an order of one unit of product id, having
\* read a stock of 1 for it
SoldLastUnit(w, id) ==
    /\ workers[w].pc = "done"
    /\ workers[w].response.ok
    /\ Len(workers[w].request.items) = 1
    /\ workers[w].request.items[1].name = id
    /\ workers[w].request.items[1].quantity = 1
    /\ workers[w].productMap[id].stock = 1

\* C4: when two interleaved placeOrder requests for the last unit of one
\* product both read a stock of 1, both succeed and the stock ends at -1.
C4_LastUnitOversold ==
    \A id \in ProductIds :
        (SoldLastUnit("w1", id) /\ SoldLastUnit("w2", id)) => products[id].stock = -1

\* C4 witness: both requests have read the last unit and both have succeeded.
C4_Witness ==
    \E id \in ProductIds :
        /\ SoldLastUnit("w1", id)
        /\ SoldLastUnit("w2", id)
        /\ Cardinality(DOMAIN orders) = 2

\* ------------------------------------------------------ claims: the cart
\* the request is an addToCart for an existing product, a size it offers and
\* a quantity q with 1 <= q <= stock
AddWithinStock ==
    /\ Handling("addToCart")
    /\ req.id \in ProductIds
    /\ req.size \in products[req.id].sizes
    /\ 1 <= req.quantity
    /\ req.quantity <= products[req.id].stock

\* C8 as stated: for every existing product, offered size and quantity q with
\* 1 <= q <= stock, addToCart increases the stored quantity of the entry by
\* exactly q, whatever quantity the cart already holds.
C8_AddIncreasesByQuantity ==
    [][AddWithinStock =>
        Stored(carts'[req.userId], req.id, req.size)
            = Stored(carts[req.userId], req.id, req.size) + req.quantity]_vars

\* C8 amended: under the same precondition addToCart succeeds and increases
\* the stored quantity by exactly q when existing + q <= stock; when
\* existing + q > stock it is rejected and the cart is unchanged.
C8_AddIncreasesUpToStock ==
    [][AddWithinStock =>
        IF Stored(carts[req.userId], req.id, req.size) + req.quantity <= products[req.id].stock
        THEN /\ resp'.ok
             /\ Stored(carts'[req.userId], req.id, req.size)
                    = Stored(carts[req.userId], req.id, req.size) + req.quantity
        ELSE /\ ~resp'.ok
             /\ resp'.msg = "Insufficient stock"
             /\ carts' = carts]_vars

\* C8 witness: an addToCart has succeeded on an entry that already held a
\* positive quantity.
C8_Witness ==
    /\ req.op = "addToCart"
    /\ resp.op = "addToCart"
    /\ resp.ok
    /\ Stored(carts[req.userId], req.id, req.size) - req.quantity >= 1

\* C9: an addToCart that fails leaves the carts and the products unchanged,
\* and the same request handled again in the resulting state gets the same
\* rejection.
C9_FailedAddIsIdempotent ==
    [][(Handling("addToCart") /\ ~resp'.ok) =>
        /\ carts' = carts
        /\ products' = products
        /\ orders' = orders
        /\ resp' = Fail("addToCart", addToCartError(carts[req.userId], req)')]_vars

\* C9 witness: a quantity above the stock of an existing product, for a size
\* it offers, has been rejected with the insufficient-stock reason.
C9_Witness ==
    /\ req.op = "addToCart"
    /\ resp.op = "addToCart"
    /\ ~resp.ok
    /\ resp.msg = "Insufficient stock"
    /\ req.id \in ProductIds
    /\ req.size \in products[req.id].sizes
    /\ req.quantity > products[req.id].stock
    /\ products[req.id].stock >= 1

\* the response reports the entry as ignored
Ignored(ignoredItems, id, size) ==
    \E k \in DOMAIN ignoredItems :
        /\ ignoredItems[k].productId = id
        /\ ignoredItems[k].size \in {"", size}

\* C10: after mergeCart, no entry merged from the client cart has a stored
\* quantity greater than the product's stock.
C10_MergeWithinStock ==
    (req.op = "mergeCart" /\ resp.op = "mergeCart") =>
        \A i \in DOMAIN req.cartData : \A j \in DOMAIN req.cartData[i][2] :
            LET id == req.cartData[i][1]
                size == req.cartData[i][2][j][1]
            IN  ~Ignored(resp.ignoredItems, id, size) =>
                    Stored(carts[req.userId], id, size) <= products[id].stock

\* C10 witness: a merged entry of positive client quantity whose stored
\* quantity has reached the stock, with a smaller client quantity.
C10_Witness ==
    /\ req.op = "mergeCart"
    /\ resp.op = "mergeCart"
    /\ \E i \in DOMAIN req.cartData : \E j \in DOMAIN req.cartData[i][2] :
            LET id == req.cartData[i][1]
                size == req.cartData[i][2][j][1]
                quantity == req.cartData[i][2][j][2]
            IN  /\ ~Ignored(resp.ignoredItems, id, size)
                /\ quantity >= 1
                /\ quantity < products[id].stock
                /\ Stored(carts[req.userId], id, size) = products[id].stock

\* the client cart names the entry (id, size)
Named(cookieCart, id, size) ==
    \E i \in DOMAIN cookieCart : \E j \in DOMAIN cookieCart[i][2] :
        cookieCart[i][1] = id /\ cookieCart[i][2][j][1] = size

\* C11: for every client-cart triple (product, size, quantity) whose product
\* exists, whose size is offered and whose quantity is at most the stock,
\* mergeCart sets the stored quantity to min(existing + quantity, stock),
\* existing being the quantity stored before the merge (0 when absent); the
\* entries of the account cart the client cart does not name are unchanged.
C11_MergeAddsClamped ==
    [][Handling("mergeCart") =>
        /\ \A i \in DOMAIN req.cartData : \A j \in DOMAIN req.cartData[i][2] :
              LET id == req.cartData[i][1]
                  size == req.cartData[i][2][j][1]
                  quantity == req.cartData[i][2][j][2]
              IN  (id \in ProductIds /\ size \in products[id].sizes /\ quantity <= products[id].stock) =>
                      Stored(carts'[req.userId], id, size)
                          = Min(Stored(carts[req.userId], id, size) + quantity, products[id].stock)
        /\ \A id \in DOMAIN carts[req.userId] : \A size \in DOMAIN carts[req.userId][id] :
              ~Named(req.cartData, id, size) =>
                  /\ id \in DOMAIN carts'[req.userId]
                  /\ size \in DOMAIN carts'[req.userId][id]
                  /\ carts'[req.userId][id][size] = carts[req.userId][id][size]
        /\ \A u \in UserIds \ {req.userId} : carts'[u] = carts[u]]_vars

\* C11 witness: a merge has stored a positive client quantity in one size of
\* a product whose other size, not named by the client cart, is in the cart.
C11_Witness ==
    /\ req.op = "mergeCart"
    /\ resp.op = "mergeCart"
    /\ \E i \in DOMAIN req.cartData : \E j \in DOMAIN req.cartData[i][2] :
            LET id == req.cartData[i][1]
                size == req.cartData[i][2][j][1]
                quantity == req.cartData[i][2][j][2]
            IN  /\ ~Ignored(resp.ignoredItems, id, size)
                /\ quantity >= 1
                /\ Stored(carts[req.userId], id, size) > quantity
                /\ \E other \in Sizes \ {size} :
                      /\ ~Named(req.cartData, id, other)
                      /\ Stored(carts[req.userId], id, other) >= 1

\* the records of ignoredItems about the entry (id, size): a record of the
\* entry itself, or a record of its whole product (size "")
Reports(ignoredItems, id, size) ==
    {k \in DOMAIN ignoredItems :
        ignoredItems[k].productId = id /\ ignoredItems[k].size \in {"", size}}

\* the reason mergeCart skips a client-cart triple for, "" when it merges it
SkipReason(id, size, quantity) ==
    IF id \notin ProductIds THEN "Product not found"
    ELSE IF size \notin products[id].sizes THEN "Invalid size"
    ELSE IF products[id].stock < quantity THEN "Insufficient stock"
    ELSE ""

\* the entry (id, size) of a cart: <<quantity>>, or <<>> when absent
Entry(cart, id, size) ==
    IF id \in DOMAIN cart /\ size \in DOMAIN cart[id] THEN <<cart[id][size]>> ELSE <<>>

C13_CartQuantitiesPositive ==
    \A u \in UserIds : \A id \in DOMAIN carts[u] : \A size \in DOMAIN carts[u][id] :
        carts[u][id][size] > 0

\* ------------------------------------------------ claims: order lifetime
\* C14: a stored order is removed only by a verifyStripe step for that order,
\* the order being an unpaid Stripe order and the session created for it
\* being reported not paid; no other order is ever removed.
C14_OnlyOwnUnpaidStripeOrderDeleted ==
    [][\A id \in DOMAIN orders \ DOMAIN orders' :
          /\ Handling("verifyStripe")
          /\ req.orderId = id
          /\ orders[id].paymentMethod = "Stripe"
          /\ ~orders[id].payment
          /\ req.sessionId = id
          /\ sessions[id] # "paid"]_vars

\* the name, price, quantity and size of every line item
Lines(items) ==
    [i \in DOMAIN items |->
        [name |-> items[i].name, price |-> items[i].price,
         quantity |-> items[i].quantity, size |-> items[i].size]]

\* C15: the line items of every order that userOrders or allOrders returns
\* are exactly the line items stored with the order at placement, whatever
\* updateProduct and removeProduct have done since to their products.
C15_ReadReturnsFrozenLines ==
    (req.op \in {"userOrders", "allOrders"} /\ resp.op = req.op /\ resp.ok) =>
        \A k \in DOMAIN resp.orders :
            Lines(resp.orders[k].items) = Lines(orders[resp.orders[k]._id].items)

\* ------------------------------------------------- claims: order status
\* C16: the status of every order is always one of validStatuses: an order
\* is created with status "Order Placed", and an updateOrderStatus request
\* naming any other string is rejected and leaves every order as it was.
C16_StatusInEnumeration ==
    [][/\ \A id \in DOMAIN orders' : orders'[id].status \in Statuses
       /\ \A id \in DOMAIN orders' \ DOMAIN orders : orders'[id].status = "Order Placed"
       /\ (Handling("updateOrderStatus") /\ req.status \notin Statuses) =>
              /\ ~resp'.ok
              /\ resp'.status = 400
              /\ orders' = orders]_vars

\* C16 witness: a status outside validStatuses has been refused for a stored
\* order whose status an earlier request had changed.
C16_Witness ==
    /\ req.op = "updateOrderStatus"
    /\ resp.op = "updateOrderStatus"
    /\ req.status \notin Statuses
    /\ ~resp.ok
    /\ req.orderId \in DOMAIN orders
    /\ orders[req.orderId].status = "Shipped"

\* C17: for a stored order in any status and any status of validStatuses,
\* updateOrderStatus succeeds, sets the status, and changes nothing else: not
\* another field of the order, not another order, no product and no cart.
C17_StatusChangeUnconditional ==
    [][(Handling("updateOrderStatus") /\ req.orderId \in DOMAIN orders /\ req.status \in Statuses) =>
        /\ resp'.ok
        /\ orders' = [orders EXCEPT ![req.orderId].status = req.status]
        /\ products' = products
        /\ carts' = carts
        /\ sessions' = sessions]_vars

\* C17 witness: an order has been set back to "Order Placed" while another
\* order is in the status "Delivered".
C17_Witness ==
    /\ req.op = "updateOrderStatus"
    /\ resp.op = "updateOrderStatus"
    /\ resp.ok
    /\ req.status = "Order Placed"
    /\ req.orderId \in DOMAIN orders
    /\ orders[req.orderId].status = "Order Placed"
    /\ \E id \in DOMAIN orders : orders[id].status = "Delivered"

\* ------------------------------------------------ claims: cart ownership
\* C18: a placeOrder step that stores an order, and a verifyStripe step for a
\* stored order, leave the cart of every account other than the owner of that
\* order as it was, whatever userId the request names.
C18_OnlyOwnersCartChanged ==
    [][/\ (Handling("verifyStripe") /\ req.orderId \in DOMAIN orders) =>
              \A u \in UserIds \ {orders[req.orderId].userId} : carts'[u] = carts[u]
       /\ Handling("placeOrder") =>
              \A id \in DOMAIN orders' \ DOMAIN orders :
                  \A u \in UserIds \ {orders'[id].userId} : carts'[u] = carts[u]]_vars

\* ------------------------------------------------- claims: error status
\* the status class the cause of a rejection calls for: 404 for a missing
\* entity, 400 for an input that fails validation
CauseStatus(msg) ==
    IF msg \in {"Product not found", "User not found", "Order not found", "Item not found in cart"}
    THEN 404 ELSE 400

\* C19: every rejected cart or admin request is answered with the status of
\* its cause: 400 for an input-validation failure, insufficient stock
\* included, and 404 for a missing product or cart item; none with 500.
C19_FailureStatusByCause ==
    (resp.op # "none" /\ ~resp.ok) => resp.status = CauseStatus(resp.msg)

\* ------------------------------------------------- claims: registration
CreatingAccount == Handling("registerUser") \/ Handling("createAdmin")

\* C20: when the verification email cannot be sent after registerUser or
\* createAdmin has saved the account, the account is deleted again and the
\* send is attempted once only: no account with that email exists after the
\* request, and a registration is rejected as a duplicate only while an
\* account with its email exists.
C20_FailedMailDeletesAccount ==
    [][CreatingAccount =>
        /\ resp'.msg = "Failed to send verification email" =>
              /\ req.email \notin DOMAIN accounts'
              /\ accounts' = accounts
              /\ resp'.sends = 1
        /\ resp'.msg = "User with this email already exists" => req.email \in DOMAIN accounts]_vars

\* C20 witness: a createAdmin by the admin has failed on the email and no
\* account with the requested email exists, while another account has been
\* registered.
C20_Witness ==
    /\ req.op = "createAdmin"
    /\ resp.op = "createAdmin"
    /\ resp.msg = "Failed to send verification email"
    /\ req.email \notin DOMAIN accounts
    /\ \E e \in Emails : e \in DOMAIN accounts

\* the bearer token is validly signed, unexpired and carries the id of an
\* existing account
BearerOfAccount(token) ==
    /\ token.key = "JWT_SECRET_KEY"
    /\ env.now < token.exp
    /\ token.claim = "id"
    /\ token.sub \in DOMAIN accounts

Answering(op) == req # NoReq /\ req.op = op /\ resp = NoResp /\ resp' # NoResp

\* C21: a handler behind adminAuth runs only for a validly signed bearer token
\* of an existing admin account, and the request is otherwise answered 401
\* (missing or invalid token, unknown user) or 403 (account that is not an
\* admin); a handler behind userAuth runs only for a validly signed bearer
\* token of an existing account, and the request is otherwise answered 401.
C21_HandlersBehindAuth ==
    [][/\ Answering("getAllUsers") =>
            LET known == BearerOfAccount(req.token)
                admin == known /\ accounts[req.token.sub].role = "admin"
            IN  /\ resp'.ran <=> admin
                /\ ~known => resp'.status = 401
                /\ known /\ ~admin => resp'.status = 403
       /\ Answering("getUserProfile") =>
            /\ resp'.ran => BearerOfAccount(req.token)
            /\ ~BearerOfAccount(req.token) => resp'.status = 401
      ]_vars

\* a validly signed token of the registered user was refused by adminAuth
C21_Witness ==
    /\ req # NoReq /\ req.op = "getAllUsers" /\ resp # NoResp
    /\ req.token.key = "JWT_SECRET_KEY" /\ req.token.sub = AuthUser
    /\ resp.status = 403 /\ ~resp.ran

\* --------------------------------------------- claims: checkout failures
\* C22: a verifyStripe for an order that is already marked paid, naming the
\* paid session of that order, changes no stock: the stock is lowered by the
\* ordered quantities at most once per order.
C22_StockDecrementedOncePerOrder ==
    [][(/\ Handling("verifyStripe")
        /\ req.orderId \in DOMAIN orders
        /\ orders[req.orderId].payment
        /\ req.sessionId = req.orderId
        /\ req.sessionId \in DOMAIN sessions
        /\ sessions[req.sessionId] = "paid")
       => products' = products]_vars

\* C23: a placeOrderStripe answered with a failure leaves no order behind:
\* the stored orders are those stored before the request.
C23_FailedStripeOrderNotStored ==
    [][(Answering("placeOrderStripe") /\ ~resp'.ok) => orders' = orders]_vars

\* ------------------------------------------------------ claims: storefront
\* C24: the storefront sends at most one POST /cart/merge per login, and a
\* page loaded by a user who is already logged in sends none and leaves the
\* server-side cart as it is: the cached copy of the server cart is never
\* merged back, whatever the order in which the runs of the initialization
\* effect resume.
C24_GuestCartMergedOncePerLogin ==
    [][/\ browser'.posted <= 1
       /\ browser.cookie # NoBearer => (browser'.posted = 0 /\ carts' = carts)]_vars

\* -------------------------------------------------------- claims: sessions
Answered(op) == req # NoReq /\ req.op = op /\ resp # NoResp

\* the refresh tokens that could have been issued to an account so far
RefreshTokensOf(id) ==
    {token \in SignedTokens : token.key = "JWT_REFRESH_SECRET_KEY" /\ token.sub = id}

\* C25: the refreshToken endpoint accepts exactly the refresh token most
\* recently issued to the account: a refresh token just issued by userLogin,
\* verifyEmail or a refresh is accepted, the token a successful refresh
\* replaced is rejected from then on, and after a logout every refresh token
\* issued to the account before is rejected.
C25_OnlyCurrentRefreshTokenAccepted ==
    /\ (resp # NoResp /\ resp.op \in {"userLogin", "verifyEmail", "refreshToken"} /\ resp.ok)
          => refreshTokenError(resp.refreshToken) = ""
    /\ (Answered("refreshToken") /\ resp.ok /\ req.token # resp.refreshToken)
          => refreshTokenError(req.token) # ""
    /\ (Answered("logout") /\ resp.ok)
          => \A token \in RefreshTokensOf(resp.userId) : refreshTokenError(token) # ""

\* C26: POST /admin issues tokens only to accounts whose role is 'admin'.
C26_AdminLoginOnlyForAdmins ==
    [][(Answering("userLogin") /\ req.route = "/admin" /\ resp'.ok)
          => accounts[req.email].role = "admin"]_vars

\* C28: an account that is not verified gets no tokens from userLogin and
\* does not reach a handler behind verifyEmailMiddleware, and isVerified
\* becomes true only in a verifyEmail step whose token is validly signed,
\* unexpired and carries the email of that account.
C28_UnverifiedAccountsKeptOut ==
    [][/\ (Answering("userLogin") /\ resp'.ok) => accounts[req.email].isVerified
       /\ (Answering("getUserProfile") /\ resp'.ran) => accounts[resp'.authUser].isVerified
       /\ \A email \in DOMAIN accounts \cap DOMAIN accounts' :
             (~accounts[email].isVerified /\ accounts'[email].isVerified)
                => /\ Handling("verifyEmail")
                   /\ req.token.key = "JWT_SECRET_KEY"
                   /\ env.now < req.token.exp
                   /\ req.token.claim = "email"
                   /\ req.token.sub = email
      ]_vars

\* the login of an account that is not verified was refused, after the
\* account had been refused at its profile as well
C28_Witness ==
    /\ Answered("userLogin")
    /\ req.email = AuthUser
    /\ req.password = "Str0ng!Passw0rd"
    /\ ~accounts[AuthUser].isVerified
    /\ resp.status = 403 /\ ~resp.ok

\* C27: resetPassword accepts a token only if it is the one stored for the
\* account and clears it on success, so that the token is rejected afterwards,
\* and a forgotPassword for an account makes the reset token stored before
\* it rejected.
C27_ResetTokenSingleUse ==
    [][/\ (Answering("resetPassword") /\ resp'.ok)
            => /\ req.token = accounts[resp'.user].resetPasswordToken
               /\ accounts'[resp'.user].resetPasswordToken # req.token
       /\ (Answering("forgotPassword") /\ req.email \in DOMAIN accounts
             /\ accounts[req.email].resetPasswordToken # NoToken)
            => accounts'[req.email].resetPasswordToken # accounts[req.email].resetPasswordToken
      ]_vars

\* --------------------------------------------------------- claims: reviews
\* C29: a product holds at most one review per user, the author of every
\* stored review has a delivered order containing the product, and the
\* ratings field of the product equals its number of reviews, also when two
\* requests of one user for one product run at once.
C29_OneReviewPerBuyer ==
    \A id \in DOMAIN products :
        LET reviews == products[id].reviews
        IN  /\ \A i, j \in DOMAIN reviews : reviews[i].userId = reviews[j].userId => i = j
            /\ \A i \in DOMAIN reviews : deliveredOrder(reviews[i].userId, id)
            /\ products[id].ratings = Len(reviews)

\* -------------------------------------------------------- claims: accounts
\* C30: deleteUser removes no account whose role is 'admin' and never the
\* account of its caller, so it never makes the set of admin accounts
\* smaller, and a deleteUser that is refused leaves the accounts as they were.
C30_DeleteUserSparesAdmins ==
    [][Answering("deleteUser") =>
          /\ \A email \in DOMAIN accounts \ DOMAIN accounts' :
                accounts[email].role # "admin" /\ email # req.caller
          /\ \A email \in DOMAIN accounts' : email \in DOMAIN accounts /\ accounts'[email] = accounts[email]
          /\ ~resp'.ok => accounts' = accounts
          /\ resp'.ok => req.userId \notin DOMAIN accounts'
      ]_vars

\* an admin asked for the deletion of a second admin and was refused
C30_Witness ==
    /\ Answered("deleteUser")
    /\ req.caller = RootAdmin
    /\ req.userId \in DOMAIN accounts
    /\ req.userId # req.caller
    /\ accounts[req.userId].role = "admin"
    /\ ~resp.ok
    /\ resp.msg = "Cannot delete another admin account"


====
